---------------------------- MODULE Spec2Model ----------------------------
(***************************************************************************)
(* Model of the FPGA bitstream Huffman co-design software controllers:     *)
(* src/Software/compression.c (6 stages) and src/Software/decompression.c  *)
(* (8 stages), with the SD card helpers of src/Software/sdcard.c.          *)
(*                                                                         *)
(* A file on the SD card is a sequence of characters (one-character        *)
(* strings), line terminators included.  The accelerators are hardware and *)
(* are modelled by the contract of their register interface.               *)
(***************************************************************************)
EXTENDS Integers, Sequences, FiniteSets, TLC

VARIABLES
    fs,          \* SD card: file name -> content, DOMAIN fs = files present
    pc,          \* control position of the running program
    rcs,         \* return codes of the stages run so far, in order
    freq_table,  \* compression.c: int freq_table[MAX_SYMBOLS]
    huff_table,  \* compression.c: HuffmanNode huff_table[MAX_SYMBOLS]
    node_pool,   \* compression.c: HuffNode node_pool[], the allocated prefix
    ip,          \* Huffman IP as seen from the bus: strobes and entries received
    env,         \* what the environment decides for this run (device, storage)
    to,          \* int to: the poll budget left in the handshake in progress
    minheap      \* compression.c: MinHeap heap, local to generate_huffman_codes

vars == <<fs, pc, rcs, freq_table, huff_table, node_pool, ip, env, to, minheap>>

---------------------------------------------------------------------------
(* Bounds of the model *)
MaxFreq == 2        \* small frequency tables: each count in 0..MaxFreq
MaxEnc == 2         \* records of the parsed payload in the codec harness
MaxDevRow == 2      \* the request a slow or silent device is slow or silent on
MaxWords == 4       \* full 32-bit words of an input payload
MaxBlocks == 2      \* full buffers in a bundle handed to the cipher stages
MaxLines == 2       \* lines in each section of a synthetic bundle

(* Program constants *)
MAX_SYMBOLS == 256
LINE_LEN_C == 32            \* MAX_LINE_LEN of compression.c
LINE_LEN_D == 256           \* MAX_LINE_LEN of decompression.c
LOAD_TIMEOUT == 10000       \* int to = 10000 of the load loops
VALID_TIMEOUT == 100000     \* int to = 100000 of wait_valid_out
FREQ_MASK == 16777216       \* 0x00FFFFFF + 1
NULL == 0

(* File names *)
HEADER_FILE == "HEAZFO.txt"
PARSED_FILE == "PARZFO.txt"
FREQ_FILE == "FREZFO.txt"
SYMBOL_FILE == "SYMZFO.txt"
COUNT_FILE == "COUZFO.txt"
SYMIN_FILE == "SYMIZFO.txt"
CODEWIN_FILE == "CODEWZFO.txt"
CODELEN_FILE == "CODLZFO.txt"
CODEBOOK_FILE == "HMCZFO.txt"
OUTPUT_FILE == "OUTZFO.txt"
COMP_FILE == "COMPZFO.BIN"
ENCR_FILE == "ENCRZFO.BIN"
INPUT_FILE == "ZFO.rbt"
D_ENCRYPT_FILE == "ENCR.bin"
D_DECRYPTED_FILE == "COMP.bin"
D_HEADER_FILE == "HEADER.txt"
D_CODEBOOK_FILE == "HMCODES.txt"
D_OUTPUT_FILE == "OUTPUT.txt"
D_SYMIN_FILE == "SYMIN.txt"
D_CODEWIN_FILE == "CODWIN.txt"
D_CODELEN_FILE == "CODLEN.txt"
D_OUTCW_FILE == "OTCW.txt"
D_OUTLEN_FILE == "OTLEN.txt"
D_PARRGN_FILE == "RGN.txt"
D_MERGED_FILE == "MERGED.txt"
D_DECOMP_FILE == "DECOMP.rbt"

---------------------------------------------------------------------------
(* Characters and text *)
LF == "\n"
CR == "\r"
SP == " "
TAB == "\t"
Digits == <<"0", "1", "2", "3", "4", "5", "6", "7", "8", "9">>
CRLF == <<CR, LF>>

IsBit(c) == c = "0" \/ c = "1"
BitVal(c) == IF c = "1" THEN 1 ELSE 0
IsDigit(c) == \E d \in 1..10 : Digits[d] = c
DigitVal(c) == (CHOOSE d \in 1..10 : Digits[d] = c) - 1
\* isspace of <ctype.h>; \v and \f never occur in the model's files
isspace(c) == c \in {SP, TAB, LF, CR}

Pow2(n) == 2 ^ n

\* Let(e, LAMBDA v : body): body with v bound to the value of e, computed once
Let(e, F(_)) == CHOOSE r \in {F(v) : v \in {e}} : TRUE

RECURSIVE Flatten(_)
Flatten(ss) == IF ss = <<>> THEN <<>> ELSE Head(ss) \o Flatten(Tail(ss))

RECURSIVE Spaces(_)
Spaces(n) == IF n <= 0 THEN <<>> ELSE <<SP>> \o Spaces(n - 1)

\* printf("%-Ns"): left-justified in a field of at least n characters
PadRight(s, n) == s \o Spaces(n - Len(s))
\* printf("%Nd") of a non-negative number: right-justified
PadLeft(s, n) == Spaces(n - Len(s)) \o s

RECURSIVE IntToDec(_)
\* printf("%u") / printf("%d") of a non-negative number
IntToDec(n) == IF n < 10 THEN <<Digits[n + 1]>>
               ELSE IntToDec(n \div 10) \o <<Digits[(n % 10) + 1]>>

\* The bit loops "for (b = width-1; b >= 0; b--) out[..] = (val >> b) & 1"
uint_to_binstr(val, width) ==
    [i \in 1..width |-> IF (val \div Pow2(width - i)) % 2 = 1 THEN "1" ELSE "0"]

get_binary_string(value) == uint_to_binstr(value, 8)

RECURSIVE BinPrefix(_, _, _)
BinPrefix(s, i, v) ==
    IF i <= Len(s) /\ IsBit(s[i]) THEN BinPrefix(s, i + 1, 2 * v + BitVal(s[i]))
    ELSE v
\* while (*s == '0' || *s == '1') v = (v << 1) | (*s++ - '0');
binstr_to_int(s) == BinPrefix(s, 1, 0)

RECURSIVE SkipSpace(_, _)
SkipSpace(s, i) == IF i <= Len(s) /\ isspace(s[i]) THEN SkipSpace(s, i + 1) ELSE i

RECURSIVE DigitsPrefix(_, _, _, _)
DigitsPrefix(s, i, base, v) ==
    IF i <= Len(s) /\ IsDigit(s[i]) /\ DigitVal(s[i]) < base
    THEN DigitsPrefix(s, i + 1, base, base * v + DigitVal(s[i]))
    ELSE v
\* strtol(s, NULL, base) and atoi(s): blanks, an optional sign, then digits
strtol(s, base) ==
    LET i == SkipSpace(s, 1)
        neg == i <= Len(s) /\ s[i] = "-"
        j == IF i <= Len(s) /\ s[i] \in {"-", "+"} THEN i + 1 ELSE i
        v == DigitsPrefix(s, j, base, 0)
    IN IF neg THEN 0 - v ELSE v
atoi(s) == strtol(s, 10)

\* is_binstr of decompression.c: non-empty and only '0'/'1'
is_binstr(s) == s # <<>> /\ \A i \in 1..Len(s) : IsBit(s[i])

RECURSIVE RStripLen(_, _)
RStripLen(s, n) == IF n > 0 /\ s[n] \in {SP, TAB} THEN RStripLen(s, n - 1) ELSE n
rstrip(s) == SubSeq(s, 1, RStripLen(s, Len(s)))

StartsWith(s, p) == Len(s) >= Len(p) /\ SubSeq(s, 1, Len(p)) = p

---------------------------------------------------------------------------
(* SD card helpers (sdcard.c) *)
Exists(f, name) == name \in DOMAIN f
\* openFile(name, 'w') creates the file empty; writeFile appends
WriteFiles(f, upd) ==
    [n \in (DOMAIN f) \cup (DOMAIN upd) |-> IF n \in DOMAIN upd THEN upd[n] ELSE f[n]]
\* f_unlink, tolerant of a missing file
Unlink(f, names) == [n \in (DOMAIN f) \ names |-> f[n]]

---------------------------------------------------------------------------
(* Line readers *)
RECURSIVE ReadChars(_, _, _, _)
\* The character loop shared by both f_readline: stops at '\n' (consumed), at the
\* end of the file, or when the buffer holds len-1 characters; drops '\r'.
ReadChars(buf, p, acc, len) ==
    IF Len(acc) < len - 1 /\ p <= Len(buf)
    THEN IF buf[p] = LF THEN [line |-> acc, next |-> p + 1]
         ELSE ReadChars(buf, p + 1, IF buf[p] # CR THEN Append(acc, buf[p]) ELSE acc, len)
    ELSE [line |-> acc, next |-> p]

\* compression.c f_readline: 0 only for an empty read at the end of the file
C_f_readline(buf, p, len) ==
    Let(ReadChars(buf, p, <<>>, len), LAMBDA r :
        [line |-> r.line, next |-> r.next,
         ok |-> ~(r.line = <<>> /\ r.next > Len(buf))])

\* decompression.c f_readline: 0 for every empty read
D_f_readline(buf, p, len) ==
    Let(ReadChars(buf, p, <<>>, len), LAMBDA r :
        [line |-> r.line, next |-> r.next, ok |-> r.line # <<>>])

RECURSIVE C_ReadFrom(_, _, _)
C_ReadFrom(buf, p, len) ==
    Let(C_f_readline(buf, p, len), LAMBDA r :
        IF r.ok THEN <<r.line>> \o C_ReadFrom(buf, r.next, len) ELSE <<>>)
\* the lines a loop "while (f_readline(fp, line, len))" sees (compression.c)
C_ReadLines(buf, len) == C_ReadFrom(buf, 1, len)

RECURSIVE D_ReadFrom(_, _, _)
D_ReadFrom(buf, p, len) ==
    Let(D_f_readline(buf, p, len), LAMBDA r :
        IF r.ok THEN <<r.line>> \o D_ReadFrom(buf, r.next, len) ELSE <<>>)
\* the lines a loop "while (f_readline(fp, line, len))" sees (decompression.c)
D_ReadLines(buf, len) == D_ReadFrom(buf, 1, len)

Min(a, b) == IF a < b THEN a ELSE b
Max(a, b) == IF a < b THEN b ELSE a

\* The loop "for (i = 0; i < MAX_SYMBOLS; i++) if (cnt[i] > 0)" visits these
\* symbols, in ascending order
Present(cnt) ==
    LET S == {i \in 0..(MAX_SYMBOLS - 1) : cnt[i] > 0}
    IN [k \in 1..Cardinality(S) |->
           CHOOSE x \in S : Cardinality({y \in S : y < x}) = k - 1]

---------------------------------------------------------------------------
(* Huffman tree builder (compression.c, codebook generator) *)

\* A zero-initialised HuffmanNode (globals start zeroed)
ZeroEntry == [symbol |-> 0, freq |-> 0, code |-> <<>>, code_len |-> 0]
ZeroHuffTable == [s \in 0..(MAX_SYMBOLS - 1) |-> ZeroEntry]
ZeroFreqTable == [s \in 0..(MAX_SYMBOLS - 1) |-> 0]

\* a new_node that leaves one arena slot unused before the node it returns
new_node_spare(pool, symbol, freq, left, right) ==
    Append(Append(pool, [symbol |-> -1, freq |-> 0, left |-> NULL, right |-> NULL]),
           [symbol |-> symbol, freq |-> freq, left |-> left, right |-> right])
\* new_node: the node is stored at node_pool[node_index++]; a pointer is the
\* 1-based position in the allocated prefix, NULL is 0
new_node(pool, symbol, freq, left, right) ==
    Append(pool, [symbol |-> symbol, freq |-> freq, left |-> left, right |-> right])

\* MinHeap: nodes[0..MAX_SYMBOLS-1] (pointers) and size
EmptyHeap == [nodes |-> [i \in 0..(MAX_SYMBOLS - 1) |-> NULL], size |-> 0]

RECURSIVE SiftUp(_, _, _, _)
SiftUp(pool, nodes, i, node) ==
    IF i > 0 /\ pool[node].freq < pool[nodes[(i - 1) \div 2]].freq
    THEN SiftUp(pool, [nodes EXCEPT ![i] = nodes[(i - 1) \div 2]], (i - 1) \div 2, node)
    ELSE [nodes EXCEPT ![i] = node]

heap_push(pool, heap, node) ==
    [nodes |-> SiftUp(pool, heap.nodes, heap.size, node), size |-> heap.size + 1]

RECURSIVE SiftDown(_, _, _, _, _)
SiftDown(pool, nodes, size, i, last) ==
    IF 2 * i + 1 < size
    THEN LET l == 2 * i + 1
             smallest == IF l + 1 < size /\ pool[nodes[l + 1]].freq < pool[nodes[l]].freq
                         THEN l + 1 ELSE l
         IN IF pool[last].freq <= pool[nodes[smallest]].freq
            THEN [nodes EXCEPT ![i] = last]
            ELSE SiftDown(pool, [nodes EXCEPT ![i] = nodes[smallest]], size, smallest, last)
    ELSE [nodes EXCEPT ![i] = last]

\* a pop that takes the node in the last slot instead of the root
heap_pop_last(pool, heap) ==
    [res |-> heap.nodes[heap.size - 1],
     heap |-> [nodes |-> heap.nodes, size |-> heap.size - 1]]
\* heap_pop: res is nodes[0]; the last node is sifted down from the root
heap_pop(pool, heap) ==
    LET size == heap.size - 1
        last == heap.nodes[size]
    IN [res |-> heap.nodes[0],
        heap |-> [nodes |-> SiftDown(pool, heap.nodes, size, 0, last), size |-> size]]

AssignLeft(prefix) == prefix \o <<"0">>
\* a builder that labels the right branch like the left one
AssignRightAsLeft(prefix) == Append(prefix, "0")
AssignRight(prefix) == prefix \o <<"1">>

RECURSIVE assign_codes(_, _, _, _)
assign_codes(pool, ht, node, prefix) ==
    IF pool[node].left = NULL /\ pool[node].right = NULL
    THEN [ht EXCEPT ![pool[node].symbol].code = prefix,
                    ![pool[node].symbol].code_len = Len(prefix)]
    ELSE Let(IF pool[node].left # NULL
             THEN assign_codes(pool, ht, pool[node].left, AssignLeft(prefix))
             ELSE ht,
             LAMBDA h1 :
                IF pool[node].right # NULL
                THEN assign_codes(pool, h1, pool[node].right, AssignRight(prefix))
                ELSE h1)

RECURSIVE PushLeavesFromZero(_, _, _, _, _)
\* a leaf loop that makes a leaf for symbol 0 when it met no symbol
PushLeavesFromZero(ft, syms, k, pool, heap) ==
    IF k > Len(syms)
    THEN IF pool = <<>>
         THEN Let(new_node(pool, 0, ft[0], NULL, NULL), LAMBDA p2 :
                  [pool |-> p2, heap |-> heap_push(p2, heap, Len(p2))])
         ELSE [pool |-> pool, heap |-> heap]
    ELSE Let(new_node(pool, syms[k], ft[syms[k]], NULL, NULL), LAMBDA p2 :
             PushLeavesFromZero(ft, syms, k + 1, p2, heap_push(p2, heap, Len(p2))))
RECURSIVE PushLeaves(_, _, _, _, _)
\* for (i = 0; i < MAX_SYMBOLS; i++) if (freq_table[i] > 0) heap_push(new_node(i, ...))
\* syms = the symbols with freq_table[i] > 0 in the order the loop meets them
PushLeaves(ft, syms, k, pool, heap) ==
    IF k > Len(syms) THEN [pool |-> pool, heap |-> heap]
    ELSE Let(new_node(pool, syms[k], ft[syms[k]], NULL, NULL), LAMBDA p2 :
             PushLeaves(ft, syms, k + 1, p2, heap_push(p2, heap, Len(p2))))

RECURSIVE MergeLoop(_, _)
\* while (heap.size > 1) { left = pop; right = pop; push(new_node(-1, sum, left, right)) }
MergeLoop(pool, heap) ==
    IF heap.size > 1
    THEN Let(heap_pop(pool, heap), LAMBDA a :
         Let(heap_pop(pool, a.heap), LAMBDA b :
         Let(new_node(pool, -1, pool[a.res].freq + pool[b.res].freq, a.res, b.res),
             LAMBDA p2 : MergeLoop(p2, heap_push(p2, b.heap, Len(p2))))))
    ELSE [pool |-> pool, heap |-> heap]

\* generate_huffman_codes: node_index = 0, build, then assign from the root
generate_huffman_codes(ft, ht) ==
    Let(PushLeaves(ft, Present(ft), 1, <<>>, EmptyHeap), LAMBDA leaves :
    Let(MergeLoop(leaves.pool, leaves.heap), LAMBDA built :
       [pool |-> built.pool,
        huff_table |-> IF built.heap.size = 1
                       THEN assign_codes(built.pool, ht, built.heap.nodes[0], <<>>)
                       ELSE ht]))

---------------------------------------------------------------------------
(* Count stage hand-off files and the codebook stage (compression.c) *)

\* read_symbol_frequency: the counter's register masked to 24 bits
read_symbol_frequency(counts, symbol) == counts[symbol] % FREQ_MASK

\* a count stage that writes the count rows in descending symbol order
write_symbol_count_files_swapped(counts) ==
    LET freq == [s \in 0..(MAX_SYMBOLS - 1) |-> read_symbol_frequency(counts, s)]
        syms == Present(freq)
        n == Len(syms)
    IN [sym |-> Flatten([k \in 1..n |-> get_binary_string(syms[k]) \o <<LF>>]),
        cnt |-> Flatten([k \in 1..n |-> IntToDec(freq[syms[n + 1 - k]]) \o <<LF>>])]
\* stage_freq_counter, second loop: SYMBOL_FILE and COUNT_FILE, one row per
\* symbol with freq > 0, ascending
write_symbol_count_files(counts) ==
    LET freq == [s \in 0..(MAX_SYMBOLS - 1) |-> read_symbol_frequency(counts, s)]
        syms == Present(freq)
    IN [sym |-> Flatten([k \in 1..Len(syms) |-> get_binary_string(syms[k]) \o <<LF>>]),
        cnt |-> Flatten([k \in 1..Len(syms) |-> IntToDec(freq[syms[k]]) \o <<LF>>])]

RECURSIVE ScanLine(_, _, _)
\* while (si < size && buf[si] != '\n' && sj < 31) { if (buf[si] != '\r') line[sj++] = buf[si]; si++; } si++;
ScanLine(buf, si, acc) ==
    IF si <= Len(buf) /\ buf[si] # LF /\ Len(acc) < 31
    THEN ScanLine(buf, si + 1, IF buf[si] # CR THEN Append(acc, buf[si]) ELSE acc)
    ELSE [line |-> acc, next |-> si + 1]

RECURSIVE ParsePairs(_, _, _, _, _, _, _)
ParsePairs(sym_buf, freq_buf, si, fi, line_num, ft, ht) ==
    IF si <= Len(sym_buf) /\ fi <= Len(freq_buf) /\ line_num < MAX_SYMBOLS
    THEN Let([s |-> ScanLine(sym_buf, si, <<>>), f |-> ScanLine(freq_buf, fi, <<>>),
              ft |-> ft, ht |-> ht], LAMBDA c :
         LET symbol == strtol(c.s.line, 2)
             freq == atoi(c.f.line)
         IN IF symbol >= 0 /\ symbol < MAX_SYMBOLS /\ freq > 0
            THEN ParsePairs(sym_buf, freq_buf, c.s.next, c.f.next, line_num + 1,
                            [c.ft EXCEPT ![symbol] = freq],
                            [c.ht EXCEPT ![symbol].symbol = symbol,
                                         ![symbol].freq = freq])
            ELSE ParsePairs(sym_buf, freq_buf, c.s.next, c.f.next, line_num,
                            c.ft, c.ht))
    ELSE [freq_table |-> ft, huff_table |-> ht]

\* parse_sym_freq_files: row i of the symbol file pairs with row i of the count file
parse_sym_freq_files(sym_buf, freq_buf, ft, ht) ==
    ParsePairs(sym_buf, freq_buf, 1, 1, 0, ft, ht)

RECURSIVE CodeBits(_, _, _)
CodeBits(code, code_len, b) ==
    IF b > code_len THEN 0
    ELSE (IF code[b] = "1" THEN Pow2(code_len - b) ELSE 0) + CodeBits(code, code_len, b + 1)
\* unsigned int codeword: bit (code_len-1-b) set for every '1' at position b
\* (code_len stays below 31 in the model, so the 32-bit register never wraps)
CodewordOf(entry) == CodeBits(entry.code, entry.code_len, 1)

\* The rows written for one table entry (lines 511-546)
SymRow(i) == uint_to_binstr(i, 8) \o CRLF
CodeRow(entry) == uint_to_binstr(CodewordOf(entry), 16) \o CRLF
LenRow(entry) == uint_to_binstr(entry.code_len, 5) \o CRLF
\* sprintf(line, "%-10s %-20s %2d\r\n", sym_bin, code, code_len)
ReportRow(i, entry) ==
    PadRight(uint_to_binstr(i, 8), 10) \o <<SP>> \o PadRight(entry.code, 20) \o <<SP>>
        \o PadLeft(IntToDec(entry.code_len), 2) \o CRLF

ReportTitle == <<"S","y","m","b","o","l">> \o Spaces(7)
                 \o <<"C","o","d","e","w","o","r","d">> \o Spaces(9)
                 \o <<"L","e","n","g","t","h">>
ReportRule == [i \in 1..38 |-> "-"]
\* char header[] of stage_codebook_gen
ReportHeader == ReportTitle \o CRLF \o ReportRule \o CRLF

\* stage_codebook_gen; bad = the files whose openFile fails
stage_codebook_gen(f, ft, ht, bad) ==
    IF ~Exists(f, SYMBOL_FILE) \/ ~Exists(f, COUNT_FILE)
       \/ SYMBOL_FILE \in bad \/ COUNT_FILE \in bad
    THEN [rc |-> -1, fs |-> f, freq_table |-> ft, huff_table |-> ht, node_pool |-> <<>>,
          built |-> FALSE]
    ELSE Let(parse_sym_freq_files(f[SYMBOL_FILE], f[COUNT_FILE], ft, ht), LAMBDA parsed :
         Let(generate_huffman_codes(parsed.freq_table, parsed.huff_table), LAMBDA gen :
         Let(Present([s \in 0..(MAX_SYMBOLS - 1) |-> gen.huff_table[s].freq]), LAMBDA rows :
            [rc |-> 0,
             fs |-> WriteFiles(f,
                 (CODEBOOK_FILE :> (ReportHeader \o Flatten(
                      [k \in 1..Len(rows) |-> ReportRow(rows[k], gen.huff_table[rows[k]])])))
                 @@ (SYMIN_FILE :> Flatten([k \in 1..Len(rows) |-> SymRow(rows[k])]))
                 @@ (CODEWIN_FILE :> Flatten(
                      [k \in 1..Len(rows) |-> CodeRow(gen.huff_table[rows[k]])]))
                 @@ (CODELEN_FILE :> Flatten(
                      [k \in 1..Len(rows) |-> LenRow(gen.huff_table[rows[k]])]))),
             freq_table |-> parsed.freq_table,
             huff_table |-> gen.huff_table,
             node_pool |-> gen.pool,
             built |-> TRUE])))

---------------------------------------------------------------------------
(* Accelerator handshakes *)

\* The value of "to" when "while (!IP_READ(flag) && to--) usleep(..);" exits, for a
\* device whose flag first reads 1 on poll number `at` (0: it never does).  Poll k
\* happens after k-1 decrements; the decrement that finds to == 0 ends the loop
\* and leaves to == -1.
PollExit(budget, at) == IF at >= 1 /\ at <= budget + 1 THEN budget - (at - 1) ELSE -1

\* load loops: "if (!to)" decides the timeout
LoadTimedOut(at) == PollExit(LOAD_TIMEOUT, at) = 0

\* wait_valid_out: return (to <= 0) ? -1 : 0;
wait_valid_out(at) == IF PollExit(VALID_TIMEOUT, at) <= 0 THEN -1 ELSE 0

\* The poll on which the device raises its flag for request number k of a phase:
\* request d.row at poll d.at, every other request on the first poll
FlagAt(d, k) == IF k = d.row THEN d.at ELSE 1

\* The table the encoder IP answers from: the last entry strobed in per symbol,
\* zero for a symbol never loaded
IpEntry(loads, symbol) ==
    LET S == {k \in 1..Len(loads) : loads[k].symbol = symbol}
    IN IF S = {} THEN [symbol |-> symbol, code |-> 0, len |-> 0]
       ELSE loads[CHOOSE k \in S : \A j \in S : j <= k]

---------------------------------------------------------------------------
(* Encode stage (compression.c) *)

RECURSIVE LoadLoop(_, _, _, _, _, _)
\* The table load loop: one loadCodeEntry per row, return -1 on "if (!to)"
LoadLoop(ls, lc, ll, k, loads, d) ==
    IF k > Min(Len(ls), Min(Len(lc), Len(ll))) THEN [rc |-> 0, loads |-> loads]
    ELSE LET e == [symbol |-> binstr_to_int(ls[k]) % 256,
                   code |-> binstr_to_int(lc[k]),
                   len |-> binstr_to_int(ll[k]) % 256]
             l2 == Append(loads, e)
         IN IF LoadTimedOut(FlagAt(d, k)) THEN [rc |-> -1, loads |-> l2]
            ELSE LoadLoop(ls, lc, ll, k + 1, l2, d)

RECURSIVE EncodeLoop(_, _, _, _, _)
\* The encode loop: one encodeSymbol per record; a timeout breaks out of the loop
EncodeLoop(lp, k, loads, out, d) ==
    IF k > Len(lp) THEN [out |-> out, total |-> k - 1, VALID_IN |-> 0, timeout |-> FALSE]
    ELSE IF wait_valid_out(FlagAt(d, k)) # 0
         THEN [out |-> out, total |-> k - 1, VALID_IN |-> 1, timeout |-> TRUE]
         ELSE Let(IpEntry(loads, binstr_to_int(lp[k]) % 256), LAMBDA e :
                  \* cw16 = CODEWORD & 0xFFFFFF, len5 = CODELEN & 0x1F
                  EncodeLoop(lp, k + 1, loads,
                             out \o uint_to_binstr(e.code % 16777216, e.len % 32) \o CRLF,
                             d))

\* stage_huffman_encode; bad = files whose openFile fails, dl / de = device
\* behaviour in the load and encode phases
stage_huffman_encode(f, dev, bad, dl, de) ==
    LET rd == {SYMIN_FILE, CODEWIN_FILE, CODELEN_FILE, PARSED_FILE}
        f1 == IF OUTPUT_FILE \in bad THEN f ELSE WriteFiles(f, OUTPUT_FILE :> <<>>)
    IN IF (\E n \in rd : ~Exists(f, n) \/ n \in bad) \/ OUTPUT_FILE \in bad
       THEN [rc |-> -1, fs |-> f1, ip |-> dev, enc_timeout |-> FALSE]
       ELSE Let(C_ReadLines(f[SYMIN_FILE], LINE_LEN_C), LAMBDA ls :
            Let(C_ReadLines(f[CODEWIN_FILE], LINE_LEN_C), LAMBDA lc :
            Let(C_ReadLines(f[CODELEN_FILE], LINE_LEN_C), LAMBDA ll :
            Let(LoadLoop(ls, lc, ll, 1, dev.loads, dl), LAMBDA ld :
               IF ld.rc # 0
               THEN [rc |-> -1, fs |-> f1, ip |-> [dev EXCEPT !.loads = ld.loads],
                     enc_timeout |-> FALSE]
               ELSE Let(C_ReadLines(f[PARSED_FILE], LINE_LEN_C), LAMBDA lp :
                    Let(EncodeLoop(lp, 1, ld.loads, <<>>, de), LAMBDA en :
                       [rc |-> 0,
                        fs |-> WriteFiles(f, OUTPUT_FILE :> en.out),
                        ip |-> [dev EXCEPT !.loads = ld.loads, !.VALID_IN = en.VALID_IN],
                        enc_timeout |-> en.timeout]))))))

---------------------------------------------------------------------------
(* Table regeneration and table load (decompression.c) *)

RECURSIVE TokenEnd(_, _, _, _)
\* while (i < n && !isspace(line[i]) && j < tlen) tokens[idx][j++] = line[i++];
TokenEnd(line, i, j, tlen) ==
    IF i <= Len(line) /\ ~isspace(line[i]) /\ j < tlen
    THEN TokenEnd(line, i + 1, j + 1, tlen) ELSE i

TokenLimit == <<63, 127, 63>>

RECURSIVE Tokens(_, _, _)
\* the tokenizer of generate_huffman_table_files_from_HMCODES: at most 3 tokens
Tokens(line, i, toks) ==
    IF Len(toks) < 3 /\ i <= Len(line)
    THEN LET b == SkipSpace(line, i)
         IN IF b > Len(line) THEN toks
            ELSE LET e == TokenEnd(line, b, 0, TokenLimit[Len(toks) + 1])
                 IN Tokens(line, e, Append(toks, SubSeq(line, b, e - 1)))
    ELSE toks

RECURSIVE RegenRowsLenient(_, _, _, _, _)
\* a regeneration loop that skips a row whose codeword is longer than 16 bits
RegenRowsLenient(lines, k, sym, code, len) ==
    IF k > Len(lines) THEN [rc |-> 0, sym |-> sym, code |-> code, len |-> len]
    ELSE Let(rstrip(lines[k]), LAMBDA line :
         Let(Tokens(line, 1, <<>>), LAMBDA t :
            IF line = <<>> \/ Len(t) < 3
            THEN RegenRowsLenient(lines, k + 1, sym, code, len)
            ELSE IF Len(t[1]) # 8 \/ ~is_binstr(t[1]) \/ ~is_binstr(t[2])
                    \/ atoi(t[3]) < 0 \/ atoi(t[3]) > 31 \/ Len(t[2]) > 16
                 THEN RegenRowsLenient(lines, k + 1, sym, code, len)
                 ELSE RegenRowsLenient(lines, k + 1,
                          sym \o t[1] \o CRLF,
                          code \o uint_to_binstr(binstr_to_int(t[2]), 16) \o CRLF,
                          len \o uint_to_binstr(atoi(t[3]), 5) \o CRLF)))
RECURSIVE RegenRows(_, _, _, _, _)
RegenRows(lines, k, sym, code, len) ==
    IF k > Len(lines) THEN [rc |-> 0, sym |-> sym, code |-> code, len |-> len]
    ELSE Let(rstrip(lines[k]), LAMBDA line :
         Let(Tokens(line, 1, <<>>), LAMBDA t :
            IF line = <<>> \/ Len(t) < 3
            THEN RegenRows(lines, k + 1, sym, code, len)
            ELSE IF Len(t[1]) # 8 \/ ~is_binstr(t[1]) \/ ~is_binstr(t[2])
                    \/ atoi(t[3]) < 0 \/ atoi(t[3]) > 31
                 THEN RegenRows(lines, k + 1, sym, code, len)
                 ELSE IF Len(t[2]) > 16
                      THEN [rc |-> -1, sym |-> sym, code |-> code, len |-> len]
                      ELSE RegenRows(lines, k + 1,
                               sym \o t[1] \o CRLF,
                               code \o uint_to_binstr(binstr_to_int(t[2]), 16) \o CRLF,
                               len \o uint_to_binstr(atoi(t[3]), 5) \o CRLF)))

\* generate_huffman_table_files_from_HMCODES
generate_huffman_table_files_from_HMCODES(f, bad) ==
    LET wr == {D_SYMIN_FILE, D_CODEWIN_FILE, D_CODELEN_FILE}
        f1 == WriteFiles(f, [n \in wr \ bad |-> <<>>])
    IN IF ~Exists(f, D_CODEBOOK_FILE) \/ D_CODEBOOK_FILE \in bad \/ wr \cap bad # {}
       THEN [rc |-> -1, fs |-> f1]
       ELSE Let(D_f_readline(f[D_CODEBOOK_FILE], 1, LINE_LEN_D), LAMBDA r1 :
            \* the first line is dropped; a title line drops the next one too
            Let(IF r1.ok /\ StartsWith(r1.line, <<"S","y","m","b","o","l">>)
                THEN D_f_readline(f[D_CODEBOOK_FILE], r1.next, LINE_LEN_D).next
                ELSE r1.next, LAMBDA p :
            Let(D_ReadFrom(f[D_CODEBOOK_FILE], p, LINE_LEN_D), LAMBDA lines :
            Let(RegenRows(lines, 1, <<>>, <<>>, <<>>), LAMBDA r :
               [rc |-> r.rc,
                fs |-> WriteFiles(f, (D_SYMIN_FILE :> r.sym) @@ (D_CODEWIN_FILE :> r.code)
                                       @@ (D_CODELEN_FILE :> r.len))]))))

RECURSIVE D_LoadLoop(_, _, _, _, _, _, _)
\* the load loop of load_huffman_table_from_files: rows of wrong width are
\* skipped, nreq counts the loadCodeEntry requests made
D_LoadLoop(ls, lc, ll, k, nreq, loads, d) ==
    IF k > Min(Len(ls), Min(Len(lc), Len(ll))) THEN [rc |-> 0, loads |-> loads]
    ELSE IF Len(ls[k]) # 8 \/ Len(lc[k]) # 16 \/ Len(ll[k]) # 5
         THEN D_LoadLoop(ls, lc, ll, k + 1, nreq, loads, d)
         ELSE LET e == [symbol |-> binstr_to_int(ls[k]) % 256,
                        code |-> binstr_to_int(lc[k]),
                        len |-> binstr_to_int(ll[k]) % 256]
                  l2 == Append(loads, e)
              IN IF LoadTimedOut(FlagAt(d, nreq + 1)) THEN [rc |-> -1, loads |-> l2]
                 ELSE D_LoadLoop(ls, lc, ll, k + 1, nreq + 1, l2, d)

\* load_huffman_table_from_files
load_huffman_table_from_files(f, dev, bad, dl) ==
    LET rd == {D_SYMIN_FILE, D_CODEWIN_FILE, D_CODELEN_FILE}
    IN IF \E n \in rd : ~Exists(f, n) \/ n \in bad
       THEN [rc |-> -1, ip |-> dev]
       ELSE Let(D_ReadLines(f[D_SYMIN_FILE], LINE_LEN_D), LAMBDA ls :
            Let(D_ReadLines(f[D_CODEWIN_FILE], LINE_LEN_D), LAMBDA lc :
            Let(D_ReadLines(f[D_CODELEN_FILE], LINE_LEN_D), LAMBDA ll :
            Let(D_LoadLoop(ls, lc, ll, 1, 0, dev.d_loads, dl), LAMBDA ld :
               [rc |-> ld.rc, ip |-> [dev EXCEPT !.d_loads = ld.loads]]))))

---------------------------------------------------------------------------
(* Codec harness: frequency tables in, tree builder and table files out *)

\* The symbols of the small frequency tables
SmallSymbols == {0, 128, 255}
SmallCounts ==
    {[s \in 0..(MAX_SYMBOLS - 1) |-> IF s \in SmallSymbols THEN c[s] ELSE 0] :
        c \in [SmallSymbols -> 0..MaxFreq]}
\* 18 symbols whose tree has two leaves at depth 17, below the root's right child
DeepCounts ==
    [s \in 0..(MAX_SYMBOLS - 1) |->
        IF s < 16 THEN Pow2(s) ELSE IF s = 16 THEN 65536 ELSE IF s = 17 THEN 65537 ELSE 0]
\* The textbook table {A:5, B:9, C:12, D:13, E:16, F:45}, on the bytes 'A'..'F'
ExampleSymbols == [A |-> 65, B |-> 66, C |-> 67, D |-> 68, E |-> 69, F |-> 70]
ExampleFreq == [A |-> 5, B |-> 9, C |-> 12, D |-> 13, E |-> 16, F |-> 45]
ExampleCounts ==
    [s \in 0..(MAX_SYMBOLS - 1) |->
        IF \E n \in DOMAIN ExampleSymbols : ExampleSymbols[n] = s
        THEN ExampleFreq[CHOOSE n \in DOMAIN ExampleSymbols : ExampleSymbols[n] = s]
        ELSE 0]
CodecCounts == SmallCounts \cup {DeepCounts, ExampleCounts}

IpIdle == [loads |-> <<>>, d_loads |-> <<>>, LOAD_VALID |-> 0, VALID_IN |-> 0]

\* Device behaviours: every flag on the first poll, or one request (among the
\* first MaxDevRow) whose flag comes on the last poll that still counts, one
\* poll later, or never
AllPrompt == [row |-> 0, at |-> 1]
LoadDevs == {AllPrompt} \cup
    {[row |-> r, at |-> a] : r \in 1..MaxDevRow, a \in {0, LOAD_TIMEOUT, LOAD_TIMEOUT + 1}}
EncDevs == {AllPrompt} \cup
    {[row |-> r, at |-> a] : r \in 1..MaxDevRow, a \in {0, VALID_TIMEOUT, VALID_TIMEOUT + 1}}

\* bad = the files whose openFile fails, io = the files whose f_read / f_write fails
EnvNone == [counts |-> ZeroFreqTable, load |-> AllPrompt, enc |-> AllPrompt,
            d_load |-> AllPrompt, enc_timeout |-> FALSE, bad |-> {}, io |-> {}]

\* the harness's parsed payload: one record for each of the first MaxEnc symbols
HarnessParsed(counts) ==
    LET syms == Present(counts)
    IN Flatten([k \in 1..Min(MaxEnc, Len(syms)) |-> get_binary_string(syms[k]) \o <<LF>>])

LastRc == IF rcs = <<>> THEN 0 ELSE rcs[Len(rcs)].rc

InitCodec ==
    /\ \E counts \in CodecCounts :
          /\ env = [EnvNone EXCEPT !.counts = counts]
          /\ LET w == write_symbol_count_files(counts)
             IN fs = (SYMBOL_FILE :> w.sym) @@ (COUNT_FILE :> w.cnt)
                        @@ (PARSED_FILE :> HarnessParsed(counts))
    /\ pc = "codebook"
    /\ rcs = <<>>
    /\ freq_table = ZeroFreqTable
    /\ huff_table = ZeroHuffTable
    /\ node_pool = <<>>
    /\ ip = IpIdle
    /\ to = 0
    /\ minheap = EmptyHeap

CodebookGen ==
    /\ pc = "codebook"
    /\ \E r \in {stage_codebook_gen(fs, freq_table, huff_table, {})} :
          /\ fs' = r.fs
          /\ freq_table' = r.freq_table
          /\ huff_table' = r.huff_table
          /\ node_pool' = r.node_pool
          /\ rcs' = Append(rcs, [stage |-> "stage_codebook_gen", rc |-> r.rc])
    /\ pc' = "encode"
    /\ UNCHANGED <<ip, env, to, minheap>>

HuffmanEncode ==
    /\ pc = "encode" /\ LastRc = 0
    /\ \E dl \in LoadDevs, de \in EncDevs :
          \E r \in {stage_huffman_encode(fs, ip, {}, dl, de)} :
             /\ fs' = r.fs
             /\ ip' = r.ip
             /\ rcs' = Append(rcs, [stage |-> "stage_huffman_encode", rc |-> r.rc])
             /\ env' = [env EXCEPT !.load = dl, !.enc = de, !.enc_timeout = r.enc_timeout]
    /\ pc' = "deliver"
    /\ UNCHANGED <<freq_table, huff_table, node_pool, to, minheap>>

\* The codebook report reaches the decompressor as its split stage recovers it
DeliverCodebook ==
    /\ pc = "deliver" /\ LastRc = 0
    /\ fs' = WriteFiles(fs, D_CODEBOOK_FILE :> fs[CODEBOOK_FILE])
    /\ pc' = "regen"
    /\ UNCHANGED <<rcs, freq_table, huff_table, node_pool, ip, env, to, minheap>>

RegenTables ==
    /\ pc = "regen"
    /\ \E r \in {generate_huffman_table_files_from_HMCODES(fs, {})} :
          /\ fs' = r.fs
          /\ rcs' = Append(rcs, [stage |-> "generate_huffman_table_files_from_HMCODES",
                                 rc |-> r.rc])
    /\ pc' = "dload"
    /\ UNCHANGED <<freq_table, huff_table, node_pool, ip, env, to, minheap>>

D_LoadTable ==
    /\ pc = "dload" /\ LastRc = 0
    /\ \E dl \in LoadDevs :
          \E r \in {load_huffman_table_from_files(fs, ip, {}, dl)} :
             /\ ip' = r.ip
             /\ rcs' = Append(rcs, [stage |-> "load_huffman_table_from_files", rc |-> r.rc])
             /\ env' = [env EXCEPT !.d_load = dl]
    /\ pc' = "done"
    /\ UNCHANGED <<fs, freq_table, huff_table, node_pool, to, minheap>>

NextCodec == CodebookGen \/ HuffmanEncode \/ DeliverCodebook \/ RegenTables \/ D_LoadTable

SpecCodec == InitCodec /\ [][NextCodec]_vars

---------------------------------------------------------------------------
(* Properties of the codec layer, checked under SpecCodec *)

\* rc of the latest run of a stage, or 1 when the stage has not run
Ran(stage) == \E k \in 1..Len(rcs) : rcs[k].stage = stage
RcOf(stage) ==
    IF Ran(stage) THEN rcs[CHOOSE k \in 1..Len(rcs) : rcs[k].stage = stage].rc ELSE 1

\* the symbols of the FrequencyTable the builder worked on
TableSymbols == {s \in 0..(MAX_SYMBOLS - 1) : freq_table[s] > 0}

PrefixOf(a, b) == Len(a) <= Len(b) /\ SubSeq(b, 1, Len(a)) = a

MaxCodeLen == IF TableSymbols = {} THEN 0
              ELSE LET s == CHOOSE s \in TableSymbols :
                              \A t \in TableSymbols :
                                  huff_table[t].code_len <= huff_table[s].code_len
                   IN huff_table[s].code_len

RECURSIVE KraftNumerator(_, _)
\* sum over S of 2^(L - length), the Kraft sum scaled by 2^L
KraftNumerator(S, L) ==
    IF S = {} THEN 0
    ELSE LET s == CHOOSE s \in S : TRUE
         IN Pow2(L - huff_table[s].code_len) + KraftNumerator(S \ {s}, L)

\* C4: for a FrequencyTable with at least 2 symbols of non-zero frequency the
\* table built by the codebook stage is prefix-free (no codeword is a prefix of
\* another symbol's codeword) and its Kraft sum, sum of 2^-length, is at most 1.
C4_PrefixFreeKraft ==
    (RcOf("stage_codebook_gen") = 0 /\ Cardinality(TableSymbols) >= 2) =>
        /\ \A a, b \in TableSymbols :
              a # b => ~PrefixOf(huff_table[a].code, huff_table[b].code)
        /\ \A s \in TableSymbols : Len(huff_table[s].code) = huff_table[s].code_len
        /\ KraftNumerator(TableSymbols, MaxCodeLen) <= Pow2(MaxCodeLen)

\* a table of at least 3 symbols with codes of different lengths has been built
C4_Witness ==
    /\ RcOf("stage_codebook_gen") = 0
    /\ Cardinality(TableSymbols) >= 3
    /\ \E a, b \in TableSymbols : huff_table[a].code_len < huff_table[b].code_len

\* the device never raises its flag for request d.row
NeverDone(d) == d.row >= 1 /\ d.at = 0

\* C5: in the table load phase of either program, when the accelerator never
\* asserts load-done for an entry, the stage returns failure at that entry and
\* issues no loadCodeEntry call after it: the entries strobed in are exactly
\* those up to and including the timed-out one.
C5_LoadTimeoutFailsStage ==
    /\ (Ran("stage_huffman_encode") /\ NeverDone(env.load)
            /\ env.load.row <= Len(ip.loads)) =>
          (RcOf("stage_huffman_encode") = -1 /\ Len(ip.loads) = env.load.row)
    /\ (Ran("load_huffman_table_from_files") /\ NeverDone(env.d_load)
            /\ env.d_load.row <= Len(ip.d_loads)) =>
          (RcOf("load_huffman_table_from_files") = -1
              /\ Len(ip.d_loads) = env.d_load.row)

\* the rows of the three table artifacts, as the load loop reads them back
TableRowsRead ==
    LET ls == C_ReadLines(fs[SYMIN_FILE], LINE_LEN_C)
        lc == C_ReadLines(fs[CODEWIN_FILE], LINE_LEN_C)
        ll == C_ReadLines(fs[CODELEN_FILE], LINE_LEN_C)
    IN {[symbol |-> binstr_to_int(ls[k]), code |-> binstr_to_int(lc[k]),
         len |-> binstr_to_int(ll[k])] : k \in 1..Min(Len(ls), Min(Len(lc), Len(ll)))}

\* the entries of the CodeTable: symbol, codeword value, length
TableEntries ==
    {[symbol |-> s, code |-> CodewordOf(huff_table[s]), len |-> huff_table[s].code_len] :
        s \in TableSymbols}

\* C7: when the tree gives some symbol a code longer than 16 bits the codebook
\* stage fails, and no table artifact holds a truncated codeword or length.
C7_LongCodeRejected ==
    (Ran("stage_codebook_gen") /\ \E s \in TableSymbols : huff_table[s].code_len > 16) =>
        /\ RcOf("stage_codebook_gen") # 0
        /\ ({SYMIN_FILE, CODEWIN_FILE, CODELEN_FILE} \subseteq DOMAIN fs
                => TableRowsRead \subseteq TableEntries)

\* C9: the table written as three fixed-width streams and read back row by row
\* by the load loop gives the same set of (symbol, codeword value, length)
\* entries as the CodeTable the builder produced.
C9_RecordCodecRoundTrip ==
    (RcOf("stage_codebook_gen") = 0 /\ RcOf("stage_huffman_encode") = 0) =>
        {ip.loads[k] : k \in 1..Len(ip.loads)} = TableEntries

\* C10: table regeneration run on the codebook report yields symbol, codeword
\* and length artifacts with the same rows, in the same order, as the three
\* table artifacts the codebook stage wrote.
C10_ReportAndTablesAgree ==
    (RcOf("stage_codebook_gen") = 0 /\ Ran("generate_huffman_table_files_from_HMCODES")) =>
        /\ RcOf("generate_huffman_table_files_from_HMCODES") = 0
        /\ fs[D_SYMIN_FILE] = fs[SYMIN_FILE]
        /\ fs[D_CODEWIN_FILE] = fs[CODEWIN_FILE]
        /\ fs[D_CODELEN_FILE] = fs[CODELEN_FILE]

---------------------------------------------------------------------------
(* Remaining compression stages (compression.c) *)

\* char linebuf[256] of stage_bit_parser
LINEBUF_LEN == 256
ENCRYPT_KEY == 90
DECRYPT_KEY == 90
C_CLEANUP == 0
D_CLEANUP == 1

BitsSentinel == <<"B","i","t","s",":">>

\* a bit parser IP that hands the 4 bytes back last byte first
parseWordReversed(word) == [k \in 1..4 |-> binstr_to_int(SubSeq(word, 33 - 8 * k, 40 - 8 * k))]
\* parseWord, the bit parser IP: the 4 bytes of a 32-bit word, first byte first
parseWord(word) == [k \in 1..4 |-> binstr_to_int(SubSeq(word, 8 * k - 7, 8 * k))]

\* write_binary_string: 8 bits and '\n'
write_binary_string(byte_value) == uint_to_binstr(byte_value, 8) \o <<LF>>

\* the number of header lines: up to and including the first "Bits:" line
HeaderCount(lines) ==
    LET S == {k \in 1..Len(lines) : StartsWith(lines[k], BitsSentinel)}
    IN IF S = {} THEN Len(lines) ELSE CHOOSE k \in S : \A j \in S : k <= j

\* a parser that sends complete words only
InputWordsNoPad(bits) ==
    [k \in 1..(Len(bits) \div 32) |-> SubSeq(bits, 32 * k - 31, 32 * k)]
\* the 32-bit words sent to the bit parser IP: every '0'/'1' of the body in
\* order, the final partial word shifted left by (32 - bit_count)
InputWords(bits) ==
    [k \in 1..((Len(bits) + 31) \div 32) |->
        IF 32 * k <= Len(bits) THEN SubSeq(bits, 32 * k - 31, 32 * k)
        ELSE SubSeq(bits, 32 * k - 31, Len(bits))
                 \o [i \in 1..(32 * k - Len(bits)) |-> "0"]]

ParsedRecords(words) ==
    Flatten([k \in 1..Len(words) |->
        Flatten([j \in 1..4 |-> write_binary_string(parseWord(words[k])[j])])])

\* stage_bit_parser; bad = the files whose openFile fails
stage_bit_parser(f, bad) ==
    IF ~Exists(f, INPUT_FILE) \/ {INPUT_FILE, HEADER_FILE, PARSED_FILE} \cap bad # {}
    THEN [rc |-> -1,
          fs |-> WriteFiles(f, [n \in {HEADER_FILE, PARSED_FILE} \ bad |-> <<>>])]
    ELSE Let(C_ReadLines(f[INPUT_FILE], LINEBUF_LEN), LAMBDA lines :
         Let(HeaderCount(lines), LAMBDA h :
         Let(SelectSeq(Flatten(SubSeq(lines, h + 1, Len(lines))), IsBit), LAMBDA bits :
            [rc |-> 0,
             fs |-> WriteFiles(f,
                 (HEADER_FILE :> Flatten([k \in 1..h |-> lines[k] \o <<LF>>]))
                 @@ (PARSED_FILE :> ParsedRecords(InputWords(bits))))])))

\* countSymbol, the frequency counter IP: one count per 8 bits sent
CountSymbols(buf) ==
    Let(SelectSeq(buf, IsBit), LAMBDA bits :
    Let([k \in 1..(Len(bits) \div 8) |-> binstr_to_int(SubSeq(bits, 8 * k - 7, 8 * k))],
        LAMBDA sym :
            [s \in 0..(MAX_SYMBOLS - 1) |-> Cardinality({k \in 1..Len(sym) : sym[k] = s})]))

FreqTitle == <<"S","y","m","b","o","l">> \o Spaces(8)
                \o <<"F","r","e","q","u","e","n","c","y">> \o CRLF
FreqRule == [i \in 1..25 |-> "-"] \o CRLF
\* sprintf(line_buffer, "%s        %u\r\n", symbol_str, freq)
FreqRow(symbol, freq) == get_binary_string(symbol) \o Spaces(8) \o IntToDec(freq) \o CRLF
FreqReport(counts) ==
    LET syms == Present([s \in 0..(MAX_SYMBOLS - 1) |-> read_symbol_frequency(counts, s)])
    IN FreqTitle \o FreqRule
         \o Flatten([k \in 1..Len(syms) |->
                        FreqRow(syms[k], read_symbol_frequency(counts, syms[k]))])

\* a count stage that goes on with an empty parsed file
stage_freq_counter_unchecked(f, bad) ==
    IF ~Exists(f, PARSED_FILE) \/ PARSED_FILE \in bad THEN [rc |-> -1, fs |-> f]
    ELSE IF FREQ_FILE \in bad THEN [rc |-> -1, fs |-> f]
    ELSE Let(CountSymbols(f[PARSED_FILE]), LAMBDA counts :
         Let(write_symbol_count_files(counts), LAMBDA w :
            [rc |-> 0,
             fs |-> WriteFiles(f,
                 (FREQ_FILE :> FreqReport(counts))
                 @@ [n \in {SYMBOL_FILE, COUNT_FILE} \ bad |->
                        IF n = SYMBOL_FILE THEN w.sym ELSE w.cnt])]))
\* stage_freq_counter: an empty parsed file fails the stage after the report
\* file was created; the two hand-off files are opened unchecked
stage_freq_counter(f, bad) ==
    IF ~Exists(f, PARSED_FILE) \/ PARSED_FILE \in bad THEN [rc |-> -1, fs |-> f]
    ELSE IF FREQ_FILE \in bad THEN [rc |-> -1, fs |-> f]
    ELSE IF Len(f[PARSED_FILE]) = 0
         THEN [rc |-> -1, fs |-> WriteFiles(f, FREQ_FILE :> <<>>)]
    ELSE Let(CountSymbols(f[PARSED_FILE]), LAMBDA counts :
         Let(write_symbol_count_files(counts), LAMBDA w :
            [rc |-> 0,
             fs |-> WriteFiles(f,
                 (FREQ_FILE :> FreqReport(counts))
                 @@ [n \in {SYMBOL_FILE, COUNT_FILE} \ bad |->
                        IF n = SYMBOL_FILE THEN w.sym ELSE w.cnt])]))

\* #define BUFFER_SIZE, const UINT BSZ = 4096 (decrypt_file)
BUFFER_SIZE == 4096
D_BSZ == 4096

\* FRESULT values: FR_OK, and FR_DISK_ERR for a failed f_read / f_write
FR_OK == "FR_OK"
FR_DISK_ERR == "FR_DISK_ERR"

\* copy_file: blocks of BUFFER_SIZE bytes until a read returns none; the first
\* failing f_read or f_write ends the copy with its FRESULT.  io = the files
\* whose f_read / f_write fails; out = the bytes that reached fout.
copy_file(f, fin, fout, io) ==
    IF fin \in io THEN [rc |-> FR_DISK_ERR, out |-> <<>>]
    ELSE IF Len(f[fin]) > 0 /\ fout \in io THEN [rc |-> FR_DISK_ERR, out |-> <<>>]
    ELSE [rc |-> FR_OK,
          out |-> Flatten([k \in 1..((Len(f[fin]) + BUFFER_SIZE - 1) \div BUFFER_SIZE) |->
                     SubSeq(f[fin], BUFFER_SIZE * (k - 1) + 1,
                            Min(Len(f[fin]), BUFFER_SIZE * k))])]

\* stage_create_comp_bin: header, codebook and encoded output, in this order;
\* a failed copy is reported and the stage goes on to the next copy and to
\* "return 0"
stage_create_comp_bin(f, bad, io) ==
    LET rd == {HEADER_FILE, CODEBOOK_FILE, OUTPUT_FILE}
    IN IF (\E n \in rd : ~Exists(f, n) \/ n \in bad) \/ COMP_FILE \in bad
       THEN [rc |-> -1, fs |-> WriteFiles(f, [n \in {COMP_FILE} \ bad |-> <<>>])]
       ELSE [rc |-> 0,
             fs |-> WriteFiles(f, COMP_FILE :>
                        (copy_file(f, HEADER_FILE, COMP_FILE, io).out
                           \o copy_file(f, CODEBOOK_FILE, COMP_FILE, io).out
                           \o copy_file(f, OUTPUT_FILE, COMP_FILE, io).out))]

\* The byte values of the characters the artifacts are made of
AsciiTable ==
    <<<<TAB, 9>>, <<LF, 10>>, <<CR, 13>>, <<SP, 32>>, <<"-", 45>>, <<"0", 48>>,
      <<"1", 49>>, <<"2", 50>>, <<"3", 51>>, <<"4", 52>>, <<"5", 53>>, <<"6", 54>>,
      <<"7", 55>>, <<"8", 56>>, <<"9", 57>>, <<":", 58>>, <<"B", 66>>, <<"C", 67>>,
      <<"D", 68>>, <<"L", 76>>, <<"S", 83>>, <<"X", 88>>, <<"b", 98>>, <<"d", 100>>, <<"e", 101>>,
      <<"g", 103>>, <<"h", 104>>, <<"i", 105>>, <<"l", 108>>, <<"m", 109>>,
      <<"n", 110>>, <<"o", 111>>, <<"r", 114>>, <<"s", 115>>, <<"t", 116>>,
      <<"w", 119>>, <<"y", 121>>>>
Ascii(c) == AsciiTable[CHOOSE k \in 1..Len(AsciiTable) : AsciiTable[k][1] = c][2]
Chr(b) == IF \E k \in 1..Len(AsciiTable) : AsciiTable[k][2] = b
          THEN AsciiTable[CHOOSE k \in 1..Len(AsciiTable) : AsciiTable[k][2] = b][1]
          ELSE "?"

RECURSIVE Xor(_, _, _)
\* bitwise exclusive or of two n-bit values
Xor(a, b, n) ==
    IF n = 0 THEN 0
    ELSE ((a + b) % 2) + 2 * Xor(a \div 2, b \div 2, n - 1)

\* cipherByte, the encrypt / decrypt IP: data XOR key, its own inverse
cipherByte(data, key) == Xor(data, key, 8)

RECURSIVE EncryptLoop(_, _, _, _)
\* do { f_read(BSZ); cipher every byte; f_write(br); } while (br > 0);
EncryptLoop(data, p, out, key) ==
    Let(SubSeq(data, p, Min(Len(data), p + BUFFER_SIZE - 1)), LAMBDA buf :
        IF Len(buf) > 0
        THEN EncryptLoop(data, p + Len(buf),
                         out \o [i \in 1..Len(buf) |-> cipherByte(Ascii(buf[i]), key)], key)
        ELSE out)

\* stage_encrypt_comp_bin(COMP_FILE, ENCR_FILE, key): the cipher file holds byte
\* values; a failed f_read or f_write breaks out of the loop and the stage
\* returns 0
stage_encrypt_comp_bin(f, bad, io, key) ==
    IF ~Exists(f, COMP_FILE) \/ {COMP_FILE, ENCR_FILE} \cap bad # {}
    THEN [rc |-> -1, fs |-> WriteFiles(f, [n \in {ENCR_FILE} \ bad |-> <<>>])]
    ELSE [rc |-> 0,
          fs |-> WriteFiles(f, ENCR_FILE :>
                     IF {COMP_FILE, ENCR_FILE} \cap io # {} THEN <<>>
                     ELSE EncryptLoop(f[COMP_FILE], 1, <<>>, key))]

\* the files cleanup_helper_files unlinks (compression.c)
C_helperFiles == {SYMBOL_FILE, COUNT_FILE, SYMIN_FILE, CODEWIN_FILE, CODELEN_FILE, COMP_FILE,
                  OUTPUT_FILE, CODEBOOK_FILE, FREQ_FILE, PARSED_FILE, HEADER_FILE}
\* the loop of cleanup_helper_files: f_unlink of every helper file, FR_NO_FILE
\* tolerated
C_unlink_helpers(f) == Unlink(f, C_helperFiles)
\* cleanup_helper_files (compression.c)
C_cleanup_helper_files(f) == IF C_CLEANUP = 0 THEN f ELSE C_unlink_helpers(f)

---------------------------------------------------------------------------
(* Remaining decompression stages (decompression.c) *)

\* a loop body run once: the first block only
DecryptLoopOnce(data, p, out) ==
    out \o [i \in 1..Min(Len(data) - p + 1, D_BSZ) |->
               Chr(cipherByte(data[p + i - 1], DECRYPT_KEY))]
RECURSIVE DecryptLoop(_, _, _)
\* do { f_read(BSZ); decipher every byte; f_write(br); } while (br > 0);
DecryptLoop(data, p, out) ==
    Let(SubSeq(data, p, Min(Len(data), p + D_BSZ - 1)), LAMBDA buffer :
        IF Len(buffer) > 0
        THEN DecryptLoop(data, p + Len(buffer),
                         out \o [i \in 1..Len(buffer) |->
                                    Chr(cipherByte(buffer[i], DECRYPT_KEY))])
        ELSE out)

\* decrypt_file: ENCRYPT_FILE -> DECRYPTED_FILE through the decrypt IP; a failed
\* f_read or f_write breaks out of the loop and the stage returns 0
decrypt_file(f, bad, io) ==
    IF ~Exists(f, D_ENCRYPT_FILE) \/ {D_ENCRYPT_FILE, D_DECRYPTED_FILE} \cap bad # {}
    THEN [rc |-> -1, fs |-> WriteFiles(f, [n \in {D_DECRYPTED_FILE} \ bad |-> <<>>])]
    ELSE [rc |-> 0,
          fs |-> WriteFiles(f, D_DECRYPTED_FILE :>
                     IF {D_ENCRYPT_FILE, D_DECRYPTED_FILE} \cap io # {} THEN <<>>
                     ELSE DecryptLoop(f[D_ENCRYPT_FILE], 1, <<>>))]

\* the token count of split_comp_bin: maximal runs of non-space characters
token_count(line) ==
    Cardinality({i \in 1..Len(line) :
                    ~isspace(line[i]) /\ (i = 1 \/ isspace(line[i - 1]))})

RECURSIVE SplitLines(_, _, _, _, _, _)
\* the classifier loop of split_comp_bin; state 0 = header, 1 = codebook, 2 = output
SplitLines(lines, k, state, header, codes, output) ==
    IF k > Len(lines) THEN [header |-> header, codes |-> codes, output |-> output]
    ELSE IF state = 0
         THEN IF StartsWith(lines[k], <<"S","y","m","b","o","l">>)
              THEN SplitLines(lines, k + 1, 1, header, codes \o lines[k] \o CRLF, output)
              ELSE SplitLines(lines, k + 1, 0, header \o lines[k] \o CRLF, codes, output)
         ELSE IF state = 1 /\ ~(token_count(lines[k]) = 1 /\ is_binstr(lines[k]))
              THEN SplitLines(lines, k + 1, 1, header, codes \o lines[k] \o CRLF, output)
              ELSE SplitLines(lines, k + 1, 2, header, codes, output \o lines[k] \o CRLF)

\* split_comp_bin
split_comp_bin(f, bad) ==
    LET wr == {D_HEADER_FILE, D_CODEBOOK_FILE, D_OUTPUT_FILE}
    IN IF ~Exists(f, D_DECRYPTED_FILE) \/ D_DECRYPTED_FILE \in bad \/ wr \cap bad # {}
       THEN [rc |-> -1, fs |-> WriteFiles(f, [n \in wr \ bad |-> <<>>])]
       ELSE Let(D_ReadLines(f[D_DECRYPTED_FILE], LINE_LEN_D), LAMBDA lines :
            Let(SplitLines(lines, 1, 0, <<>>, <<>>, <<>>), LAMBDA r :
               [rc |-> 0,
                fs |-> WriteFiles(f, (D_HEADER_FILE :> r.header)
                                       @@ (D_CODEBOOK_FILE :> r.codes)
                                       @@ (D_OUTPUT_FILE :> r.output))]))

RECURSIVE OutStreamRows(_, _, _, _)
\* the row loop of generate_out_stream_files_from_OUTPUT
OutStreamRows(lines, k, cw, len) ==
    IF k > Len(lines) THEN [rc |-> 0, cw |-> cw, len |-> len]
    ELSE Let(SelectSeq(rstrip(lines[k]), IsBit), LAMBDA line :
            IF line = <<>> THEN OutStreamRows(lines, k + 1, cw, len)
            ELSE IF Len(line) > 16 THEN [rc |-> -1, cw |-> cw, len |-> len]
            ELSE OutStreamRows(lines, k + 1,
                     cw \o uint_to_binstr(binstr_to_int(line), 16) \o CRLF,
                     len \o uint_to_binstr(Len(line), 5) \o CRLF))

\* generate_out_stream_files_from_OUTPUT
generate_out_stream_files_from_OUTPUT(f, bad) ==
    LET wr == {D_OUTCW_FILE, D_OUTLEN_FILE}
    IN IF ~Exists(f, D_OUTPUT_FILE) \/ D_OUTPUT_FILE \in bad \/ wr \cap bad # {}
       THEN [rc |-> -1, fs |-> WriteFiles(f, [n \in wr \ bad |-> <<>>])]
       ELSE Let(D_ReadLines(f[D_OUTPUT_FILE], LINE_LEN_D), LAMBDA lines :
            Let(OutStreamRows(lines, 1, <<>>, <<>>), LAMBDA r :
               [rc |-> r.rc,
                fs |-> WriteFiles(f, (D_OUTCW_FILE :> r.cw) @@ (D_OUTLEN_FILE :> r.len))]))

\* decodeCodeword, the decoder IP: the symbol loaded with this codeword and
\* length (the last such entry), 0 when there is none
decodeCodeword(loads, code, len) ==
    LET S == {k \in 1..Len(loads) : loads[k].code = code /\ loads[k].len = len}
    IN IF S = {} THEN 0 ELSE loads[CHOOSE k \in S : \A j \in S : j <= k].symbol

RECURSIVE DecodeRows(_, _, _, _, _)
\* the row loop of decompress_from_files: rows of wrong width are skipped
DecodeRows(lc, ll, k, loads, out) ==
    IF k > Min(Len(lc), Len(ll)) THEN out
    ELSE IF Len(lc[k]) # 16 \/ Len(ll[k]) # 5
         THEN DecodeRows(lc, ll, k + 1, loads, out)
         ELSE DecodeRows(lc, ll, k + 1, loads,
                  out \o uint_to_binstr(decodeCodeword(loads, binstr_to_int(lc[k]),
                                                       binstr_to_int(ll[k]) % 256), 8)
                      \o CRLF)

\* decompress_from_files
decompress_from_files(f, dev, bad) ==
    IF (\E n \in {D_OUTCW_FILE, D_OUTLEN_FILE} : ~Exists(f, n) \/ n \in bad)
       \/ D_PARRGN_FILE \in bad
    THEN [rc |-> -1, fs |-> WriteFiles(f, [n \in {D_PARRGN_FILE} \ bad |-> <<>>])]
    ELSE Let(D_ReadLines(f[D_OUTCW_FILE], LINE_LEN_D), LAMBDA lc :
         Let(D_ReadLines(f[D_OUTLEN_FILE], LINE_LEN_D), LAMBDA ll :
            [rc |-> 0,
             fs |-> WriteFiles(f, D_PARRGN_FILE :> DecodeRows(lc, ll, 1, dev.d_loads, <<>>))]))

\* binstr_to_byte: the first 8 binary digits
binstr_to_byte(s) == binstr_to_int(SubSeq(s, 1, Min(8, Len(s)))) % 256

\* mergeBytes4, the merger IP: the 32-bit word made of 4 bytes, first byte first;
\* a 32-bit word is kept as its 32 binary digits
mergeBytes4(symbols) == Flatten([j \in 1..4 |-> uint_to_binstr(symbols[j], 8)])
\* uint32_to_binstr: the 32 binary digits of the word
uint32_to_binstr(word) == SubSeq(word, 1, 32)

\* merge_symbols_to_words: records that are not 8 binary digits are skipped,
\* every 4 records give one 32-bit row, a trailing group of fewer than 4 gives none
MergedRows(lines) ==
    LET sym == SelectSeq(lines, LAMBDA l : is_binstr(l) /\ Len(l) = 8)
    IN Flatten([g \in 1..(Len(sym) \div 4) |->
           uint32_to_binstr(mergeBytes4([j \in 1..4 |-> binstr_to_byte(sym[4 * g - 4 + j])]))
               \o CRLF])

merge_symbols_to_words(f, bad) ==
    IF ~Exists(f, D_PARRGN_FILE) \/ {D_PARRGN_FILE, D_MERGED_FILE} \cap bad # {}
    THEN [rc |-> -1, fs |-> WriteFiles(f, [n \in {D_MERGED_FILE} \ bad |-> <<>>])]
    ELSE Let(D_ReadLines(f[D_PARRGN_FILE], LINE_LEN_D), LAMBDA lines :
            [rc |-> 0, fs |-> WriteFiles(f, D_MERGED_FILE :> MergedRows(lines))])

\* merge_header_and_data: the header lines, then the merged rows, each with CRLF
merge_header_and_data(f, bad) ==
    IF (\E n \in {D_HEADER_FILE, D_MERGED_FILE} : ~Exists(f, n) \/ n \in bad)
       \/ D_DECOMP_FILE \in bad
    THEN [rc |-> -1, fs |-> WriteFiles(f, [n \in {D_DECOMP_FILE} \ bad |-> <<>>])]
    ELSE Let(D_ReadLines(f[D_HEADER_FILE], LINE_LEN_D), LAMBDA hl :
         Let(D_ReadLines(f[D_MERGED_FILE], LINE_LEN_D), LAMBDA dl :
            [rc |-> 0,
             fs |-> WriteFiles(f, D_DECOMP_FILE :>
                        (Flatten([k \in 1..Len(hl) |-> hl[k] \o CRLF])
                         \o Flatten([k \in 1..Len(dl) |-> dl[k] \o CRLF])))]))

\* a helper list that names the reconstructed output as well
D_helperFilesAndOutput ==
    {D_SYMIN_FILE, D_CODEWIN_FILE, D_CODELEN_FILE, D_OUTCW_FILE, D_OUTLEN_FILE,
     D_MERGED_FILE, D_CODEBOOK_FILE, D_HEADER_FILE, D_OUTPUT_FILE,
     D_PARRGN_FILE, D_DECRYPTED_FILE, D_DECOMP_FILE}
\* the files cleanup_helper_files unlinks (decompression.c)
D_helperFiles == {D_SYMIN_FILE, D_CODEWIN_FILE, D_CODELEN_FILE, D_OUTCW_FILE, D_OUTLEN_FILE,
                  D_MERGED_FILE, D_CODEBOOK_FILE, D_HEADER_FILE, D_OUTPUT_FILE,
                  D_PARRGN_FILE, D_DECRYPTED_FILE}
\* cleanup_helper_files (decompression.c)
D_cleanup_helper_files(f) == IF D_CLEANUP = 0 THEN f ELSE Unlink(f, D_helperFiles)

---------------------------------------------------------------------------
(* The two programs: main of compression.c, main of decompression.c *)

\* a main that runs the next stage whatever the last one returned
AfterAnyRc(rc, next, out) == next
\* if (stage() != 0) goto done / goto fail;
AfterStage(rc, next, out) == IF rc # 0 THEN out ELSE next

Log(stage, rc) == Append(rcs, [stage |-> stage, rc |-> rc])

\* the steps that leave the tables and the accelerator registers alone
FileStage(at, stage, r, next, out) ==
    /\ pc = at
    /\ fs' = r.fs
    /\ rcs' = Log(stage, r.rc)
    /\ pc' = AfterStage(r.rc, next, out)
    /\ UNCHANGED <<freq_table, huff_table, node_pool, ip, env, to, minheap>>

C_BitParser ==
    \E r \in {stage_bit_parser(fs, env.bad)} :
        FileStage("c_parse", "stage_bit_parser", r, "c_count", "c_done")

C_FreqCounter ==
    \E r \in {stage_freq_counter(fs, env.bad)} :
        FileStage("c_count", "stage_freq_counter", r, "c_codebook", "c_done")

C_CodebookGen ==
    /\ pc = "c_codebook"
    /\ \E r \in {stage_codebook_gen(fs, freq_table, huff_table, env.bad)} :
          /\ fs' = r.fs
          /\ freq_table' = r.freq_table
          /\ huff_table' = r.huff_table
          /\ node_pool' = r.node_pool
          /\ rcs' = Log("stage_codebook_gen", r.rc)
          /\ pc' = AfterStage(r.rc, "c_encode", "c_done")
    /\ UNCHANGED <<ip, env, to, minheap>>

C_HuffmanEncode ==
    /\ pc = "c_encode"
    /\ \E r \in {stage_huffman_encode(fs, ip, env.bad, env.load, env.enc)} :
          /\ fs' = r.fs
          /\ ip' = r.ip
          /\ rcs' = Log("stage_huffman_encode", r.rc)
          /\ env' = [env EXCEPT !.enc_timeout = r.enc_timeout]
          /\ pc' = AfterStage(r.rc, "c_bundle", "c_done")
    /\ UNCHANGED <<freq_table, huff_table, node_pool, to, minheap>>

C_CreateCompBin ==
    \E r \in {stage_create_comp_bin(fs, env.bad, env.io)} :
        FileStage("c_bundle", "stage_create_comp_bin", r, "c_encrypt", "c_done")

C_EncryptCompBin ==
    \E r \in {stage_encrypt_comp_bin(fs, env.bad, env.io, ENCRYPT_KEY)} :
        FileStage("c_encrypt", "stage_encrypt_comp_bin", r, "c_cleanup", "c_done")

\* cleanup_helper_files() in main, reached only when no stage jumped to done
C_Cleanup ==
    /\ pc = "c_cleanup"
    /\ fs' = C_cleanup_helper_files(fs)
    /\ rcs' = Log("C_cleanup_helper_files", 0)
    /\ pc' = "c_done"
    /\ UNCHANGED <<freq_table, huff_table, node_pool, ip, env, to, minheap>>

\* done: SD_Eject(); ... return 0;
C_Return ==
    /\ pc = "c_done"
    /\ rcs' = Log("C_main", 0)
    /\ pc' = "c_exit"
    /\ UNCHANGED <<fs, freq_table, huff_table, node_pool, ip, env, to, minheap>>

\* The cipher output is handed to the decompressor under the name it reads
Transfer ==
    /\ pc = "c_exit"
    /\ Exists(fs, ENCR_FILE)
    /\ fs' = WriteFiles(fs, D_ENCRYPT_FILE :> fs[ENCR_FILE])
    /\ pc' = "d_decrypt"
    /\ UNCHANGED <<rcs, freq_table, huff_table, node_pool, ip, env, to, minheap>>

D_Decrypt ==
    \E r \in {decrypt_file(fs, env.bad, env.io)} :
        FileStage("d_decrypt", "decrypt_file", r, "d_split", "d_fail")

D_Split ==
    \E r \in {split_comp_bin(fs, env.bad)} :
        FileStage("d_split", "split_comp_bin", r, "d_regen", "d_fail")

D_Regen ==
    \E r \in {generate_huffman_table_files_from_HMCODES(fs, env.bad)} :
        FileStage("d_regen", "generate_huffman_table_files_from_HMCODES", r,
                  "d_outstream", "d_fail")

D_OutStream ==
    \E r \in {generate_out_stream_files_from_OUTPUT(fs, env.bad)} :
        FileStage("d_outstream", "generate_out_stream_files_from_OUTPUT", r,
                  "d_load", "d_fail")

D_Load ==
    /\ pc = "d_load"
    /\ \E r \in {load_huffman_table_from_files(fs, ip, env.bad, env.d_load)} :
          /\ ip' = r.ip
          /\ rcs' = Log("load_huffman_table_from_files", r.rc)
          /\ pc' = AfterStage(r.rc, "d_decode", "d_fail")
    /\ UNCHANGED <<fs, freq_table, huff_table, node_pool, env, to, minheap>>

D_Decode ==
    \E r \in {decompress_from_files(fs, ip, env.bad)} :
        FileStage("d_decode", "decompress_from_files", r, "d_merge", "d_fail")

D_MergeWords ==
    \E r \in {merge_symbols_to_words(fs, env.bad)} :
        FileStage("d_merge", "merge_symbols_to_words", r, "d_join", "d_fail")

D_MergeHeader ==
    \E r \in {merge_header_and_data(fs, env.bad)} :
        FileStage("d_join", "merge_header_and_data", r, "d_cleanup", "d_fail")

D_Cleanup ==
    /\ pc = "d_cleanup"
    /\ fs' = D_cleanup_helper_files(fs)
    /\ rcs' = Log("D_cleanup_helper_files", 0)
    /\ pc' = "d_done"
    /\ UNCHANGED <<freq_table, huff_table, node_pool, ip, env, to, minheap>>

\* return 0 after the cleanup, return -1 at fail:
D_Return ==
    /\ pc \in {"d_done", "d_fail"}
    /\ rcs' = Log("D_main", IF pc = "d_fail" THEN -1 ELSE 0)
    /\ pc' = "d_exit"
    /\ UNCHANGED <<fs, freq_table, huff_table, node_pool, ip, env, to, minheap>>

NextRun ==
    \/ C_BitParser \/ C_FreqCounter \/ C_CodebookGen \/ C_HuffmanEncode
    \/ C_CreateCompBin \/ C_EncryptCompBin \/ C_Cleanup \/ C_Return
    \/ Transfer
    \/ D_Decrypt \/ D_Split \/ D_Regen \/ D_OutStream \/ D_Load \/ D_Decode
    \/ D_MergeWords \/ D_MergeHeader \/ D_Cleanup \/ D_Return

---------------------------------------------------------------------------
(* Inputs *)

\* the words the payloads are made of: one symbol, and three symbols
WordZero == [i \in 1..32 |-> "0"]
WordMixed == uint_to_binstr(0, 8) \o uint_to_binstr(255, 8)
                \o uint_to_binstr(128, 8) \o uint_to_binstr(0, 8)
PayloadWords == {WordZero, WordMixed}

\* the bits of a final partial word: none, 1 bit, 8 bits, 31 bits
PayloadTails == {<<>>, <<"1">>, uint_to_binstr(129, 8), [i \in 1..31 |-> "1"]}

\* the header: a title line and the "Bits:" line that ends it
HeaderLines == << <<"D","e","s","i","g","n">>, BitsSentinel \o <<SP, "6", "4">> >>

\* An input file: the header lines, one payload word per line, the partial
\* word on a last line of its own; every line ends with eol
InputFile(words, tail, eol) ==
    Flatten([k \in 1..Len(HeaderLines) |-> HeaderLines[k] \o eol])
        \o Flatten([k \in 1..Len(words) |-> words[k] \o eol])
        \o (IF tail = <<>> THEN <<>> ELSE tail \o eol)

InitWith(input, e) ==
    /\ fs = (INPUT_FILE :> input)
    /\ env = e
    /\ pc = "c_parse"
    /\ rcs = <<>>
    /\ freq_table = ZeroFreqTable
    /\ huff_table = ZeroHuffTable
    /\ node_pool = <<>>
    /\ ip = IpIdle
    /\ to = 0
    /\ minheap = EmptyHeap

\* Round trips: accelerators that honour their contracts, a card without faults
TripInputs ==
    {InputFile(words, tail, eol) :
        words \in UNION {[1..n -> PayloadWords] : n \in 0..MaxWords},
        tail \in PayloadTails, eol \in {CRLF, <<LF>>}}

InitTrip == \E input \in TripInputs : InitWith(input, EnvNone)

SpecTrip == InitTrip /\ [][NextRun]_vars

\* Runs with one fault: a file that cannot be opened, a file of the block-copy
\* stages (bundle, encrypt, decrypt) that cannot be read or written, or a late
\* or silent device
StreamedFiles == {HEADER_FILE, CODEBOOK_FILE, OUTPUT_FILE, COMP_FILE, ENCR_FILE,
                  D_ENCRYPT_FILE, D_DECRYPTED_FILE}
AllFiles == C_helperFiles \cup D_helperFiles
                \cup {INPUT_FILE, ENCR_FILE, D_ENCRYPT_FILE, D_DECOMP_FILE}
Faults ==
    {EnvNone}
    \cup {[EnvNone EXCEPT !.bad = {n}] : n \in AllFiles}
    \cup {[EnvNone EXCEPT !.io = {n}] : n \in StreamedFiles}
    \cup {[EnvNone EXCEPT !.load = d] : d \in LoadDevs}
    \cup {[EnvNone EXCEPT !.enc = d] : d \in EncDevs}
    \cup {[EnvNone EXCEPT !.d_load = d] : d \in LoadDevs}

RunInputs == {InputFile(<<WordMixed>>, <<>>, CRLF),
              InputFile(<<WordMixed, WordZero>>, <<"1">>, CRLF)}

InitRun == \E input \in RunInputs, e \in Faults : InitWith(input, e)

SpecRun == InitRun /\ [][NextRun]_vars

---------------------------------------------------------------------------
(* Properties of the two programs, checked under SpecRun and SpecTrip *)

C_Stages == <<"stage_bit_parser", "stage_freq_counter", "stage_codebook_gen",
              "stage_huffman_encode", "stage_create_comp_bin", "stage_encrypt_comp_bin">>
D_Stages == <<"decrypt_file", "split_comp_bin", "generate_huffman_table_files_from_HMCODES",
              "generate_out_stream_files_from_OUTPUT", "load_huffman_table_from_files",
              "decompress_from_files", "merge_symbols_to_words", "merge_header_and_data">>

\* the stage calls a program has made so far, in order
StagesRun(stages) ==
    SelectSeq(rcs, LAMBDA e : \E k \in 1..Len(stages) : stages[k] = e.stage)
Failed(stages) == \E k \in 1..Len(StagesRun(stages)) : StagesRun(stages)[k].rc # 0

\* stages run in the declared order, each after the success of the one before
InOrder(stages) ==
    LET run == StagesRun(stages)
    IN /\ Len(run) <= Len(stages)
       /\ \A k \in 1..Len(run) :
             run[k].stage = stages[k] /\ (k < Len(run) => run[k].rc = 0)

\* the cleanup step has run only after every stage returned success
CleanupOnlyAfterSuccess(stages, cleanup) ==
    Ran(cleanup) => (Len(StagesRun(stages)) = Len(stages) /\ ~Failed(stages))

\* the files of a program present now are there, unchanged, after the step
Preserved(names) ==
    \A n \in (DOMAIN fs) \cap names : n \in DOMAIN fs' /\ fs'[n] = fs[n]

\* C1: in both programs stage k+1 starts only after stage k returned success;
\* once a stage has returned failure no later stage and no cleanup step runs,
\* and every artifact created so far stays in place.
C1_AbortAtFirstFailure ==
    /\ [](InOrder(C_Stages) /\ InOrder(D_Stages)
            /\ CleanupOnlyAfterSuccess(C_Stages, "C_cleanup_helper_files")
            /\ CleanupOnlyAfterSuccess(D_Stages, "D_cleanup_helper_files"))
    /\ [][(Failed(C_Stages) => Preserved(C_helperFiles \cup {INPUT_FILE, ENCR_FILE}))
            /\ (Failed(D_Stages) => Preserved(D_helperFiles \cup {D_ENCRYPT_FILE, D_DECOMP_FILE}))
            /\ (Failed(C_Stages) \/ Failed(D_Stages) =>
                   StagesRun(C_Stages \o D_Stages)' = StagesRun(C_Stages \o D_Stages))]_vars

\* a decompression that failed after its third stage has returned, its
\* artifacts still on the card
C1_Witness ==
    /\ pc = "d_exit"
    /\ Failed(D_Stages)
    /\ Len(StagesRun(D_Stages)) >= 3
    /\ ~Ran("D_cleanup_helper_files")
    /\ {D_DECRYPTED_FILE, D_HEADER_FILE, D_CODEBOOK_FILE, D_OUTPUT_FILE} \subseteq DOMAIN fs

\* C6: when the accelerator never asserts valid-out for a symbol, the encode
\* stage returns failure and the run aborts: no bundle, no encrypt, no cleanup.
C6_EncodeTimeoutAborts ==
    env.enc_timeout =>
        /\ RcOf("stage_huffman_encode") = -1
        /\ ~Ran("stage_create_comp_bin")
        /\ ~Ran("stage_encrypt_comp_bin")
        /\ ~Ran("C_cleanup_helper_files")

\* the payload bits of an input file: every '0'/'1' after the header
InputBits(buf) ==
    LET lines == C_ReadLines(buf, LINEBUF_LEN)
    IN SelectSeq(Flatten(SubSeq(lines, HeaderCount(lines) + 1, Len(lines))), IsBit)

\* both programs have returned, or the compressor left no cipher output
RunOver == pc = "d_exit" \/ (pc = "c_exit" /\ ~Exists(fs, ENCR_FILE))

\* C2: for an input whose payload is a multiple of 4 x 32 bits, compress then
\* decompress gives a final output equal byte for byte to the input (header
\* followed by payload).
C2_RoundTrip ==
    (RunOver /\ Len(InputBits(fs[INPUT_FILE])) > 0
             /\ Len(InputBits(fs[INPUT_FILE])) % (4 * 32) = 0) =>
        (Exists(fs, D_DECOMP_FILE) /\ fs[D_DECOMP_FILE] = fs[INPUT_FILE])

\* the merge stage has just returned
Merged == pc = "d_join" /\ Exists(fs, D_MERGED_FILE) /\ Exists(fs, D_PARRGN_FILE)

\* C3 as stated: for a payload whose bit count is not a multiple of 32 the
\* merge stage drops the records of the final partial word, so the merged
\* rows are the complete words only.
C3_PartialGroupDropped ==
    (Merged /\ Len(InputBits(fs[INPUT_FILE])) % 32 # 0) =>
        Len(D_ReadLines(fs[D_MERGED_FILE], LINE_LEN_D))
            = Len(InputBits(fs[INPUT_FILE])) \div 32

\* the payload as 32-bit rows, the last one filled up with zeros
PaddedRows(bits) ==
    [k \in 1..((Len(bits) + 31) \div 32) |->
        SubSeq(bits \o [i \in 1..31 |-> "0"], 32 * k - 31, 32 * k)]

\* C3 amended: the parse stage pads the final partial word with zeros and
\* writes 4 records for it, so the parsed payload always holds a multiple of 4
\* records; when the decoded symbol stream holds the parsed records, the merge
\* stage drops none and the merged rows are the payload words followed by
\* the zero-padded final word.
C3_PaddedWordKept ==
    /\ (Ran("stage_bit_parser") /\ Exists(fs, PARSED_FILE)
            /\ RcOf("stage_bit_parser") = 0) =>
          Len(C_ReadLines(fs[PARSED_FILE], LINE_LEN_C))
              = 4 * ((Len(InputBits(fs[INPUT_FILE])) + 31) \div 32)
    /\ (Merged /\ Len(InputBits(fs[INPUT_FILE])) % 32 # 0
            /\ D_ReadLines(fs[D_PARRGN_FILE], LINE_LEN_D)
                   = C_ReadLines(fs[PARSED_FILE], LINE_LEN_C)) =>
          D_ReadLines(fs[D_MERGED_FILE], LINE_LEN_D) = PaddedRows(InputBits(fs[INPUT_FILE]))

\* a payload of one full word and a partial one has been merged into two rows
C3_Witness ==
    /\ Merged
    /\ Len(InputBits(fs[INPUT_FILE])) > 32
    /\ Len(InputBits(fs[INPUT_FILE])) % 32 # 0
    /\ D_ReadLines(fs[D_PARRGN_FILE], LINE_LEN_D) = C_ReadLines(fs[PARSED_FILE], LINE_LEN_C)
    /\ Len(D_ReadLines(fs[D_MERGED_FILE], LINE_LEN_D))
           = (Len(InputBits(fs[INPUT_FILE])) \div 32) + 1

---------------------------------------------------------------------------
(* The split stage and the two regeneration stages on synthetic bundles *)

\* all sequences of at most n elements of S
SeqsUpTo(S, n) == UNION {[1..k -> S] : k \in 0..n}

\* header lines of a bundle: a title, the "Bits:" line, an empty line
BundleHeaderLines == {HeaderLines[1], HeaderLines[2], <<>>}
\* codebook rows of 3 tokens, as the codebook stage formats them
BundleCodeRows ==
    {SubSeq(ReportRow(0, [ZeroEntry EXCEPT !.code = <<"0">>, !.code_len = 1]), 1, 34),
     SubSeq(ReportRow(255, [ZeroEntry EXCEPT !.code = <<"1", "0">>, !.code_len = 2]), 1, 34)}
\* output rows: one binary token, one binary token with a blank after it, and
\* the empty line an encoder writes for a codeword of length 0
BundleOutputRows == {<<"0">>, <<"1", "0">>, <<"0", SP>>, <<>>}

Bundle(header, rows, out, eol) ==
    Flatten([k \in 1..Len(header) |-> header[k] \o eol])
        \o ReportTitle \o eol
        \o Flatten([k \in 1..Len(rows) |-> rows[k] \o eol])
        \o Flatten([k \in 1..Len(out) |-> out[k] \o eol])

InitSplit ==
    /\ \E header \in SeqsUpTo(BundleHeaderLines, MaxLines),
          rows \in SeqsUpTo(BundleCodeRows, MaxLines),
          out \in SeqsUpTo(BundleOutputRows, MaxLines),
          eol \in {CRLF, <<LF>>} :
          /\ env = EnvNone @@ [header |-> header, rows |-> rows, out |-> out]
          /\ fs = (D_DECRYPTED_FILE :> Bundle(header, rows, out, eol))
    /\ pc = "d_split"
    /\ rcs = <<>>
    /\ freq_table = ZeroFreqTable
    /\ huff_table = ZeroHuffTable
    /\ node_pool = <<>>
    /\ ip = IpIdle
    /\ to = 0
    /\ minheap = EmptyHeap

NextSplit == D_Split \/ D_Regen \/ D_OutStream

SpecSplit == InitSplit /\ [][NextSplit]_vars

\* the lines of a section as the split stage writes them
SectionText(lines) == Flatten([k \in 1..Len(lines) |-> lines[k] \o CRLF])

\* C8: for a bundle of header lines, the sentinel line, N rows of 3 tokens and
\* M rows of one binary token, the split stage writes exactly the header lines
\* to the header artifact, the sentinel and the N rows to the codebook
\* artifact and the M rows to the output artifact, each in the original order.
C8_SplitClassifies ==
    Ran("split_comp_bin") =>
        /\ RcOf("split_comp_bin") = 0
        /\ fs[D_HEADER_FILE] = SectionText(env.header)
        /\ fs[D_CODEBOOK_FILE] = SectionText(<<ReportTitle>> \o env.rows)
        /\ fs[D_OUTPUT_FILE] = SectionText(env.out)

---------------------------------------------------------------------------
(* Single-symbol alphabet, checked under SpecCodec *)

\* the rows of the codebook report below its title and rule lines
ReportRows ==
    LET lines == C_ReadLines(fs[CODEBOOK_FILE], LINE_LEN_D)
    IN SubSeq(lines, 3, Len(lines))

\* C11: when exactly one symbol has non-zero frequency the builder gives it code
\* length 0, and no zero-width codeword record is emitted: the codebook report
\* has no row with an empty codeword (every row carries symbol, codeword and
\* length) and the encoded output has no empty line.
C11_SingleSymbolSpecialCased ==
    (RcOf("stage_codebook_gen") = 0 /\ Cardinality(TableSymbols) = 1) =>
        /\ \A s \in TableSymbols : huff_table[s].code_len = 0
        /\ \A k \in 1..Len(ReportRows) : Len(Tokens(ReportRows[k], 1, <<>>)) = 3
        /\ RcOf("stage_huffman_encode") = 0 =>
              \A line \in {C_ReadLines(fs[OUTPUT_FILE], LINE_LEN_C)[k] :
                              k \in 1..Len(C_ReadLines(fs[OUTPUT_FILE], LINE_LEN_C))} :
                  line # <<>>

\* the part of C11 the builder does satisfy: the sole symbol gets length 0
C11_SoleSymbolLengthZero ==
    (RcOf("stage_codebook_gen") = 0 /\ Cardinality(TableSymbols) = 1) =>
        \A s \in TableSymbols : huff_table[s].code_len = 0 /\ huff_table[s].code = <<>>

---------------------------------------------------------------------------
(* The textbook frequency table, checked under SpecCodec *)

RECURSIVE WeightedLength(_, _)
\* sum over the symbols S of frequency x length, for a length assignment L
WeightedLength(S, L) ==
    IF S = {} THEN 0
    ELSE LET s == CHOOSE s \in S : TRUE
         IN freq_table[s] * L[s] + WeightedLength(S \ {s}, L)

RECURSIVE KraftOf(_, _, _)
\* sum over S of 2^(D - L[s]): the Kraft sum of the lengths L scaled by 2^D
KraftOf(S, L, D) ==
    IF S = {} THEN 0
    ELSE LET s == CHOOSE s \in S : TRUE
         IN Pow2(D - L[s]) + KraftOf(S \ {s}, L, D)

\* The length assignments of the prefix-free codes on the table's symbols: the
\* lengths 1..n (n symbols) whose Kraft sum is at most 1
PrefixLengths ==
    LET n == Cardinality(TableSymbols)
    IN {L \in [TableSymbols -> 1..n] : KraftOf(TableSymbols, L, n) <= Pow2(n)}

BuiltLengths == [s \in TableSymbols |-> huff_table[s].code_len]

\* C12: for the table {A:5, B:9, C:12, D:13, E:16, F:45} the builder gives F
\* length 1 and every other symbol a length of at least 3, and the sum of
\* frequency x length is no greater than for any other prefix-free assignment.
C12_ExampleTableOptimal ==
    (pc = "encode" /\ RcOf("stage_codebook_gen") = 0 /\ env.counts = ExampleCounts) =>
        /\ huff_table[ExampleSymbols.F].code_len = 1
        /\ \A s \in TableSymbols \ {ExampleSymbols.F} : huff_table[s].code_len >= 3
        /\ \A L \in PrefixLengths :
              WeightedLength(TableSymbols, BuiltLengths) <= WeightedLength(TableSymbols, L)

\* the example table has been built: six symbols, total weighted length 224
C12_Witness ==
    /\ pc = "encode" /\ RcOf("stage_codebook_gen") = 0 /\ env.counts = ExampleCounts
    /\ Cardinality(TableSymbols) = 6
    /\ \A n \in DOMAIN ExampleSymbols : freq_table[ExampleSymbols[n]] = ExampleFreq[n]
    /\ WeightedLength(TableSymbols, BuiltLengths) = 224

---------------------------------------------------------------------------
(* Storage errors, checked under SpecRun *)

\* the files each stage opens
StageOpens ==
    ("stage_bit_parser" :> {INPUT_FILE, HEADER_FILE, PARSED_FILE})
    @@ ("stage_freq_counter" :> {PARSED_FILE, FREQ_FILE, SYMBOL_FILE, COUNT_FILE})
    @@ ("stage_codebook_gen" :> {SYMBOL_FILE, COUNT_FILE, CODEBOOK_FILE, SYMIN_FILE,
                                  CODEWIN_FILE, CODELEN_FILE})
    @@ ("stage_huffman_encode" :> {SYMIN_FILE, CODEWIN_FILE, CODELEN_FILE, PARSED_FILE,
                                    OUTPUT_FILE})
    @@ ("stage_create_comp_bin" :> {HEADER_FILE, CODEBOOK_FILE, OUTPUT_FILE, COMP_FILE})
    @@ ("stage_encrypt_comp_bin" :> {COMP_FILE, ENCR_FILE})
    @@ ("decrypt_file" :> {D_ENCRYPT_FILE, D_DECRYPTED_FILE})
    @@ ("split_comp_bin" :> {D_DECRYPTED_FILE, D_HEADER_FILE, D_CODEBOOK_FILE, D_OUTPUT_FILE})
    @@ ("generate_huffman_table_files_from_HMCODES" :>
            {D_CODEBOOK_FILE, D_SYMIN_FILE, D_CODEWIN_FILE, D_CODELEN_FILE})
    @@ ("generate_out_stream_files_from_OUTPUT" :>
            {D_OUTPUT_FILE, D_OUTCW_FILE, D_OUTLEN_FILE})
    @@ ("load_huffman_table_from_files" :> {D_SYMIN_FILE, D_CODEWIN_FILE, D_CODELEN_FILE})
    @@ ("decompress_from_files" :> {D_OUTCW_FILE, D_OUTLEN_FILE, D_PARRGN_FILE})
    @@ ("merge_symbols_to_words" :> {D_PARRGN_FILE, D_MERGED_FILE})
    @@ ("merge_header_and_data" :> {D_HEADER_FILE, D_MERGED_FILE, D_DECOMP_FILE})

\* the block-copy stages, whose f_read / f_write calls the model can fail
BlockStages == {"stage_create_comp_bin", "stage_encrypt_comp_bin", "decrypt_file"}

\* the stage met a storage error: a file it opens cannot be opened, or a file
\* it copies block by block cannot be read or written
StorageErrorIn(stage) ==
    \/ env.bad \cap StageOpens[stage] # {}
    \/ stage \in BlockStages /\ env.io \cap StageOpens[stage] # {}

\* every stage of the program that met a storage error returned failure and was
\* the last one to run, and the cleanup step did not run
AbortsOnStorageError(stages, cleanup) ==
    LET run == StagesRun(stages)
    IN \A k \in 1..Len(run) :
          StorageErrorIn(run[k].stage) =>
              (run[k].rc # 0 /\ k = Len(run) /\ ~Ran(cleanup))

\* C13: a storage error (failure to open, read or write an artifact) in any
\* stage makes that stage return failure and aborts the run: no later stage
\* runs and cleanup is skipped, so the intermediates stay; in particular for
\* read / write failures in the bundle, encrypt and decrypt stages.
C13_StorageErrorAborts ==
    /\ AbortsOnStorageError(C_Stages, "C_cleanup_helper_files")
    /\ AbortsOnStorageError(D_Stages, "D_cleanup_helper_files")

---------------------------------------------------------------------------
(* The cleanup step, checked under SpecRun *)

\* the artifacts the stages of a program create: everything they open but the
\* program's input
Created(stages, input) ==
    UNION {StageOpens[stages[k]] : k \in 1..Len(stages)} \ {input}

\* f and g hold the same content in every file of names that f holds
SameFiles(f, g, names) == \A n \in (DOMAIN f) \cap names : n \in DOMAIN g /\ g[n] = f[n]

\* g is f without the intermediates of the program: none of them is left, and
\* the final artifact, the input and every other file are untouched
CleanedUp(f, g, stages, input, final) ==
    /\ (DOMAIN g) \cap (Created(stages, input) \ {final}) = {}
    /\ {input, final} \subseteq DOMAIN g
    /\ SameFiles(f, g, (DOMAIN f) \ (Created(stages, input) \ {final}))

\* C14: the cleanup step runs only after every stage of the run succeeded; when
\* enabled it deletes every intermediate artifact the run created and never the
\* final artifact (cipher output of the compressor, reconstructed output of the
\* decompressor) nor the run's input; a missing artifact is tolerated.  The
\* decompressor is built with cleanup enabled; the compressor is built with it
\* disabled and leaves every file, and its unlink loop is checked on the files
\* the cleanup step finds.
C14_CleanupFrame ==
    /\ [](CleanupOnlyAfterSuccess(C_Stages, "C_cleanup_helper_files")
            /\ CleanupOnlyAfterSuccess(D_Stages, "D_cleanup_helper_files"))
    /\ [][(pc = "d_cleanup" /\ pc' = "d_done") =>
             IF D_CLEANUP = 0 THEN fs' = fs
             ELSE CleanedUp(fs, fs', D_Stages, D_ENCRYPT_FILE, D_DECOMP_FILE)]_vars
    /\ [][(pc = "c_cleanup" /\ pc' = "c_done") =>
             /\ IF C_CLEANUP = 0 THEN fs' = fs
                ELSE CleanedUp(fs, fs', C_Stages, INPUT_FILE, ENCR_FILE)
             /\ CleanedUp(fs, C_unlink_helpers(fs), C_Stages, INPUT_FILE, ENCR_FILE)
             /\ C_unlink_helpers(C_unlink_helpers(fs)) = C_unlink_helpers(fs)]_vars

\* the decompressor's cleanup has run: the reconstructed output and the cipher
\* input are on the card, the decrypted bundle and the merged rows are gone
C14_Witness ==
    /\ pc = "d_done"
    /\ Ran("D_cleanup_helper_files")
    /\ {D_DECOMP_FILE, D_ENCRYPT_FILE} \subseteq DOMAIN fs
    /\ {D_DECRYPTED_FILE, D_MERGED_FILE} \cap DOMAIN fs = {}

---------------------------------------------------------------------------
(* Exit status, checked under SpecRun *)

\* every stage of the program ran and returned success
AllSucceeded(stages) == Len(StagesRun(stages)) = Len(stages) /\ ~Failed(stages)

\* the value main returned is 0 exactly when every stage returned success
StatusTellsOutcome(main, stages) ==
    Ran(main) => (RcOf(main) = 0 <=> AllSucceeded(stages))

\* C15: the exit status of each program distinguishes the outcomes: success if
\* and only if every stage returned success, failure whenever the run aborted
\* at a failing stage.
C15_ExitStatusDistinguishes ==
    /\ StatusTellsOutcome("C_main", C_Stages)
    /\ StatusTellsOutcome("D_main", D_Stages)

\* the decompressor's half of C15, which its main satisfies
C15_DecompressorStatus == StatusTellsOutcome("D_main", D_Stages)

---------------------------------------------------------------------------
(* The cipher stages on bundles of chosen lengths *)

\* bundle lengths: empty, a few bytes, and one byte less than, exactly and one
\* byte more than 1..MaxBlocks buffers
BundleLengths ==
    (0..2) \cup {k * BUFFER_SIZE + d : k \in 1..MaxBlocks, d \in {-1, 0, 1}}

\* the bytes a bundle repeats
BundlePatterns == {<<"0">>, <<"1", "0">>, <<"S", SP, "1", CR, LF>>, <<"-", "0", LF>>}

BundleOf(n, pat) == [i \in 1..n |-> pat[((i - 1) % Len(pat)) + 1]]

InitCipher ==
    /\ \E n \in BundleLengths, pat \in BundlePatterns :
          fs = (COMP_FILE :> BundleOf(n, pat))
    /\ env = EnvNone
    /\ pc = "c_encrypt"
    /\ rcs = <<>>
    /\ freq_table = ZeroFreqTable
    /\ huff_table = ZeroHuffTable
    /\ node_pool = <<>>
    /\ ip = IpIdle
    /\ to = 0
    /\ minheap = EmptyHeap

NextCipher == C_EncryptCompBin \/ C_Cleanup \/ C_Return \/ Transfer \/ D_Decrypt

SpecCipher == InitCipher /\ [][NextCipher]_vars

\* C16: decrypt is the inverse of encrypt: with the same key on both sides the
\* decrypted bundle equals the bundle byte for byte (same length, same order),
\* for every bundle, including the empty one and those of an exact multiple of
\* the 4096-byte buffer.
C16_DecryptInvertsEncrypt ==
    /\ ENCRYPT_KEY = DECRYPT_KEY
    /\ RcOf("stage_encrypt_comp_bin") = 0 => Len(fs[ENCR_FILE]) = Len(fs[COMP_FILE])
    /\ RcOf("decrypt_file") = 0 =>
           (Exists(fs, D_DECRYPTED_FILE) /\ fs[D_DECRYPTED_FILE] = fs[COMP_FILE])

\* a bundle of exactly two buffers has been encrypted and decrypted, and the
\* cipher text differs from it in every byte
C16_Witness ==
    /\ RcOf("decrypt_file") = 0
    /\ Len(fs[COMP_FILE]) = 2 * BUFFER_SIZE
    /\ Len(fs[D_DECRYPTED_FILE]) = 2 * BUFFER_SIZE
    /\ \A i \in 1..Len(fs[COMP_FILE]) : fs[ENCR_FILE][i] # Ascii(fs[COMP_FILE][i])

---------------------------------------------------------------------------
(* The handshakes of the encode stage, one register access per step *)

\* A flag of the Huffman IP: held at 0 forever, held at 1 forever, or
\* following the request strobe (up while the strobe is up, down after it)
FlagModes == {"stuck0", "stuck1", "follows"}
IP_READ(mode, strobe) ==
    IF mode = "stuck0" THEN 0 ELSE IF mode = "stuck1" THEN 1 ELSE strobe

\* one table entry and one symbol; at most one of the two flags is stuck
PollEntry == [symbol |-> 0, code |-> 0, len |-> 1]
InitPoll ==
    /\ \E done \in FlagModes, valid \in FlagModes :
          /\ done = "follows" \/ valid = "follows"
          /\ env = EnvNone @@ [done |-> done, valid |-> valid]
    /\ fs = (OUTPUT_FILE :> <<>>)
    /\ pc = "load_strobe"
    /\ rcs = <<>>
    /\ freq_table = ZeroFreqTable
    /\ huff_table = ZeroHuffTable
    /\ node_pool = <<>>
    /\ ip = IpIdle
    /\ to = 0
    /\ minheap = EmptyHeap

\* one evaluation of "while (!IP_READ(flag) && to--)": the loop is left when
\* the flag reads 1 (to as it is) or when to was 0 (to becomes -1)
PollStep(flag, here, next) ==
    /\ pc = here
    /\ IF flag = 1 THEN to' = to /\ pc' = next
       ELSE to' = to - 1 /\ pc' = (IF to # 0 THEN here ELSE next)
    /\ UNCHANGED <<fs, rcs, freq_table, huff_table, node_pool, ip, env, minheap>>

\* IP_WRITE(REG_LOAD_SYMBOL / CODE / LENGTH); IP_WRITE(REG_LOAD_VALID, 1); to = 10000
LoadStrobe ==
    /\ pc = "load_strobe"
    /\ ip' = [ip EXCEPT !.loads = Append(@, PollEntry), !.LOAD_VALID = 1]
    /\ to' = LOAD_TIMEOUT
    /\ pc' = "load_poll"
    /\ UNCHANGED <<fs, rcs, freq_table, huff_table, node_pool, env, minheap>>

LoadPoll == PollStep(IP_READ(env.done, ip.LOAD_VALID), "load_poll", "load_clear")

\* IP_WRITE(REG_LOAD_VALID, 0); if (!to) return -1; the table has no more rows
LoadClear ==
    /\ pc = "load_clear"
    /\ ip' = [ip EXCEPT !.LOAD_VALID = 0]
    /\ IF to = 0
       THEN rcs' = Log("stage_huffman_encode", -1) /\ pc' = "returned"
       ELSE rcs' = Log("loadCodeEntry", 0) /\ pc' = "enc_strobe"
    /\ UNCHANGED <<fs, freq_table, huff_table, node_pool, env, to, minheap>>

\* IP_WRITE(REG_SYMBOL_IN, symbol); IP_WRITE(REG_VALID_IN, 1); wait_valid_out: to = 100000
EncStrobe ==
    /\ pc = "enc_strobe"
    /\ ip' = [ip EXCEPT !.VALID_IN = 1]
    /\ to' = VALID_TIMEOUT
    /\ pc' = "enc_poll"
    /\ UNCHANGED <<fs, rcs, freq_table, huff_table, node_pool, env, minheap>>

EncPoll == PollStep(IP_READ(env.valid, ip.VALID_IN), "enc_poll", "enc_check")

\* if (wait_valid_out() != 0) break; ... IP_WRITE(REG_VALID_IN, 0);
EncCheck ==
    /\ pc = "enc_check"
    /\ IF to <= 0
       THEN /\ rcs' = Log("stage_huffman_encode", 0)
            /\ pc' = "returned"
            /\ ip' = ip
       ELSE /\ rcs' = rcs
            /\ pc' = "enc_drop"
            /\ ip' = [ip EXCEPT !.VALID_IN = 0]
    /\ UNCHANGED <<fs, freq_table, huff_table, node_pool, env, to, minheap>>

\* while (IP_READ(REG_VALID_OUT)) { usleep(5); }: no budget, the loop is left
\* only when the flag reads 0
EncDrop ==
    /\ pc = "enc_drop"
    /\ pc' = (IF IP_READ(env.valid, ip.VALID_IN) = 1 THEN "enc_drop" ELSE "enc_write")
    /\ UNCHANGED <<fs, rcs, freq_table, huff_table, node_pool, ip, env, to, minheap>>

\* the codeword line is written; the parsed file has no more records; return 0
EncWrite ==
    /\ pc = "enc_write"
    /\ fs' = WriteFiles(fs, OUTPUT_FILE :>
                 (fs[OUTPUT_FILE] \o uint_to_binstr(IpEntry(ip.loads, 0).code,
                                                     IpEntry(ip.loads, 0).len) \o CRLF))
    /\ rcs' = Log("stage_huffman_encode", 0)
    /\ pc' = "returned"
    /\ UNCHANGED <<freq_table, huff_table, node_pool, ip, env, to, minheap>>

NextPoll ==
    \/ LoadStrobe \/ LoadPoll \/ LoadClear
    \/ EncStrobe \/ EncPoll \/ EncCheck \/ EncDrop \/ EncWrite

SpecPoll == InitPoll /\ [][NextPoll]_vars

\* the control thread keeps running: a register access that is due is made
FairPoll == SpecPoll /\ WF_vars(NextPoll)

\* C17: every loadCodeEntry and every encodeSymbol call returns control to the
\* pipeline after a bounded number of polls whatever the device does (any flag
\* held at 0 or at 1 forever), so the encode stage terminates: it always
\* reaches its return.
C17_EncodeStageTerminates == <>(pc = "returned")

\* the part of C17 that holds: a flag that never comes up costs at most
\* budget + 1 polls, so with the valid-out flag not held at 1 the stage returns
C17_ReturnsUnlessValidHeld == (env.valid # "stuck1") ~> (pc = "returned")

\* the poll loops leave `to` as the closed form of the stage-level model says
C17_PollExitAgrees ==
    /\ pc = "load_clear" =>
          to = PollExit(LOAD_TIMEOUT, IF env.done = "stuck0" THEN 0 ELSE 1)
    /\ pc = "enc_check" =>
          to = PollExit(VALID_TIMEOUT, IF env.valid = "stuck0" THEN 0 ELSE 1)

---------------------------------------------------------------------------
(* One accelerator request at a time, checked under SpecRun *)

\* the request strobes of the Huffman IP that are asserted
StrobesUp == {r \in {"LOAD_VALID", "VALID_IN"} : ip[r] = 1}

\* the encrypt stage has sent bytes to the cipher IP
CipherRequestsMade ==
    RcOf("stage_encrypt_comp_bin") = 0 /\ Exists(fs, ENCR_FILE) /\ Len(fs[ENCR_FILE]) > 0

\* C18: at most one accelerator operation is outstanding: a request is issued
\* only after the previous one completed or its bounded poll expired, and never
\* while another request strobe is still asserted.  A stage hands over with no
\* strobe up, and the cipherByte requests of the encrypt stage are made with
\* no strobe of the encoder up.
C18_OneRequestOutstanding ==
    /\ Cardinality(StrobesUp) <= 1
    /\ Ran("stage_huffman_encode") /\ pc # "c_encode" => StrobesUp = {}
    /\ CipherRequestsMade => StrobesUp = {}

\* without an encode timeout no strobe is left up
C18_NoStrobeLeftUnlessTimeout == ~env.enc_timeout => StrobesUp = {}

\* at the level of single register accesses the two strobes of the encode
\* stage are never up together
C18_StrobesExclusive == ~(ip.LOAD_VALID = 1 /\ ip.VALID_IN = 1)

---------------------------------------------------------------------------
(* The count stage against the counter IP, with counts around 2^24 *)

\* how the counter IP keeps a slot: the hardware is not part of the software
\* sources, so a slot is a full 32-bit register, a 24-bit one that wraps, or a
\* 24-bit one that saturates
CounterModes == {"wide", "wraps", "saturates"}

\* the slot of a symbol that countSymbol was called n times for
SlotAfter(mode, n) ==
    CASE mode = "wide" -> n
      [] mode = "wraps" -> n % FREQ_MASK
      [] mode = "saturates" -> IF n < FREQ_MASK THEN n ELSE FREQ_MASK - 1

\* send_symbol: one more count in the slot of the symbol
CountOne(mode, slot) ==
    CASE mode = "wide" -> slot + 1
      [] mode = "wraps" -> (slot + 1) % FREQ_MASK
      [] mode = "saturates" -> IF slot + 1 < FREQ_MASK THEN slot + 1 ELSE FREQ_MASK - 1

\* occurrences of one symbol in the part of the payload streamed so far
StreamedCounts == {0, 1, 2, FREQ_MASK - 2, FREQ_MASK - 1, FREQ_MASK}

RECURSIVE SumSeq(_)
SumSeq(q) == IF q = <<>> THEN 0 ELSE Head(q) + SumSeq(Tail(q))

\* the count stage inside its streaming loop: the slots of the counter IP hold
\* what was sent so far, env.sent is the number of countSymbol calls made
InitCount ==
    /\ \E mode \in CounterModes, n \in [SmallSymbols -> StreamedCounts] :
          env = [EnvNone EXCEPT !.counts =
                    [s \in 0..(MAX_SYMBOLS - 1) |->
                        IF s \in SmallSymbols THEN SlotAfter(mode, n[s]) ELSE 0]]
                @@ [mode |-> mode, sent |-> n[0] + n[128] + n[255]]
    /\ fs = (PARSED_FILE :> <<>>)
    /\ pc = "count_stream"
    /\ rcs = <<>>
    /\ freq_table = ZeroFreqTable
    /\ huff_table = ZeroHuffTable
    /\ node_pool = <<>>
    /\ ip = IpIdle
    /\ to = 0
    /\ minheap = EmptyHeap

\* the last pass of the streaming loop: send_symbol(symbol_value); symbol_counter++
CountSendSymbol ==
    /\ pc = "count_stream"
    /\ \E s \in SmallSymbols :
          env' = [env EXCEPT !.counts[s] = CountOne(env.mode, @), !.sent = @ + 1]
    /\ pc' = "count_last"
    /\ UNCHANGED <<fs, rcs, freq_table, huff_table, node_pool, ip, to, minheap>>

\* the two read-back loops of stage_freq_counter and its return
CountReadBack ==
    /\ pc \in {"count_stream", "count_last"}
    /\ \E w \in {write_symbol_count_files(env.counts)} :
          fs' = WriteFiles(fs, (FREQ_FILE :> FreqReport(env.counts))
                               @@ (SYMBOL_FILE :> w.sym) @@ (COUNT_FILE :> w.cnt))
    /\ rcs' = Log("stage_freq_counter", 0)
    /\ pc' = "count_done"
    /\ UNCHANGED <<freq_table, huff_table, node_pool, ip, env, to, minheap>>

NextCount == CountSendSymbol \/ CountReadBack

SpecCount == InitCount /\ [][NextCount]_vars

\* the frequencies the stage read back, slot by slot
SlotsRead == [s \in 0..(MAX_SYMBOLS - 1) |-> read_symbol_frequency(env.counts, s)]

\* the sum of the non-zero slots as read back
SlotSum == SumSeq([k \in 1..Len(Present(SlotsRead)) |-> SlotsRead[Present(SlotsRead)[k]]])

\* C19: after the count stage the sum of all non-zero frequency slots, read
\* back through readFrequency, equals the number of symbols the stage streamed
\* through countSymbol, whatever that number is.
C19_SlotSumIsStreamed == pc = "count_done" => SlotSum = env.sent

\* the sum is exact as long as no symbol was streamed 2^24 times or more
C19_SlotSumBelowMask ==
    (pc = "count_done" /\ env.sent < FREQ_MASK) => SlotSum = env.sent

\* the report has a row for every symbol whose slot reads non-zero
C19_ReportRows ==
    pc = "count_done" =>
        Len(fs[SYMBOL_FILE]) = 9 * Len(Present(SlotsRead))

---------------------------------------------------------------------------
(* The parse stage on bodies with other characters and free line layout *)

\* payload lengths around the word size
ParseBitCounts == {0, 1, 8, 31, 32, 33, 40, 63, 64, 65}

\* two bit patterns: bit i of the payload
ParseBit(pat, i) ==
    IF pat = "ones" THEN "1"
    ELSE IF i % 3 = 0 \/ i % 7 = 1 THEN "1" ELSE "0"

\* line layouts of the body: the bits in one line, 32 per line, or 5 per
\* line with a blank before and a letter after each group
ParseLayouts == {"one", "rows", "groups"}

BodyText(n, pat, layout, eol) ==
    LET bit(i) == ParseBit(pat, i)
        width == IF layout = "rows" THEN 32 ELSE IF layout = "groups" THEN 5 ELSE n
        rows == IF n = 0 THEN 0 ELSE (n + width - 1) \div width
        row(k) == [i \in 1..(IF k * width <= n THEN width ELSE n - (k - 1) * width)
                      |-> bit((k - 1) * width + i)]
    IN Flatten([k \in 1..rows |->
            IF layout = "groups" THEN <<SP>> \o row(k) \o <<"x">> \o eol
            ELSE row(k) \o eol])

\* headers: the plain one, and one whose lines hold the characters 0 and 1
ParseHeaders ==
    {HeaderLines,
     << <<"D","e","s","i","g","n",SP,"0","1">>, BitsSentinel \o <<SP,"1","0","1">> >>}

ParseInputs ==
    {Flatten([k \in 1..Len(h) |-> h[k] \o eol]) \o BodyText(n, pat, layout, eol) :
        h \in ParseHeaders, n \in ParseBitCounts, pat \in {"ones", "mixed"},
        layout \in ParseLayouts, eol \in {CRLF, <<LF>>}}

InitParse == \E input \in ParseInputs : InitWith(input, EnvNone)

NextParse == C_BitParser

SpecParse == InitParse /\ [][NextParse]_vars

\* where the sentinel line starts in the raw input: the first line start
\* followed by "Bits:" (0 when there is none)
SentinelAt(buf) ==
    LET S == {p \in 1..Len(buf) :
                /\ p = 1 \/ buf[p - 1] = LF
                /\ p + 4 <= Len(buf)
                /\ SubSeq(buf, p, p + 4) = BitsSentinel}
    IN IF S = {} THEN 0 ELSE CHOOSE p \in S : \A q \in S : p <= q

\* where the body starts: after the line feed that ends the sentinel line
BodyAt(buf) ==
    LET E == {q \in SentinelAt(buf)..Len(buf) : q >= 1 /\ buf[q] = LF}
    IN IF SentinelAt(buf) = 0 \/ E = {} THEN Len(buf) + 1
       ELSE 1 + CHOOSE q \in E : \A r \in E : q <= r

\* the '0'/'1' characters of the body, in input order
BodyBits(buf) == SelectSeq(SubSeq(buf, BodyAt(buf), Len(buf)), IsBit)

IsNotCR(c) == c # CR
IsNotLF(c) == c # LF

Parsed == pc # "c_parse" /\ RcOf("stage_bit_parser") = 0

\* C20: for a body with n '0'/'1' characters after the sentinel line (other
\* characters ignored, lines within the line buffer) the parse stage sends
\* ceil(n/32) words in input order, the final partial word shifted left with
\* zeros in its missing low-order bits, and appends exactly 4 records of 8
\* bits per word to the parsed payload; the lines up to and including the
\* sentinel line go to the header artifact only and give no payload bits.
C20_ParseStageWords ==
    Parsed =>
        LET bits == BodyBits(fs[INPUT_FILE])
            n == Len(bits)
            words == (n + 31) \div 32
            out == fs[PARSED_FILE]
        IN /\ Len(out) = 9 * 4 * words
           /\ \A i \in 1..Len(out) : (out[i] = LF) <=> (i % 9 = 0)
           /\ SelectSeq(out, IsNotLF) = bits \o [i \in 1..(32 * words - n) |-> "0"]
           /\ fs[HEADER_FILE]
                 = SelectSeq(SubSeq(fs[INPUT_FILE], 1, BodyAt(fs[INPUT_FILE]) - 1), IsNotCR)

\* a body of more than one word with a partial last word, other characters
\* between the bits, and a header that holds the characters 0 and 1
C20_Witness ==
    /\ Parsed
    /\ Len(BodyBits(fs[INPUT_FILE])) > 32
    /\ Len(BodyBits(fs[INPUT_FILE])) % 32 # 0
    /\ \E i \in BodyAt(fs[INPUT_FILE])..Len(fs[INPUT_FILE]) : fs[INPUT_FILE][i] = "x"
    /\ \E i \in 1..(BodyAt(fs[INPUT_FILE]) - 1) : fs[INPUT_FILE][i] = "1"
    /\ \E i \in 1..Len(fs[PARSED_FILE]) : fs[PARSED_FILE][i] = "1"

---------------------------------------------------------------------------
(* The hand-off from the count stage to the codebook stage, under SpecTrip *)

\* the frequencies the count stage read from the counter IP
FreqRead ==
    Let(CountSymbols(fs[PARSED_FILE]), LAMBDA counts :
        [s \in 0..(MAX_SYMBOLS - 1) |-> read_symbol_frequency(counts, s)])

\* the rows of the symbol artifact and of the count artifact
SymbolRows == C_ReadLines(fs[SYMBOL_FILE], LINE_LEN_C)
CountRows == C_ReadLines(fs[COUNT_FILE], LINE_LEN_C)

Counted == RcOf("stage_freq_counter") = 0 /\ Exists(fs, PARSED_FILE)
              /\ Exists(fs, SYMBOL_FILE) /\ Exists(fs, COUNT_FILE)

\* C21: the count stage writes the symbol and count artifacts with one row per
\* symbol of non-zero frequency, in ascending symbol order and with equal row
\* counts, and the FrequencyTable the codebook stage rebuilds by pairing row i
\* with row i holds, for every symbol 0..255, the frequency the count stage
\* read from the accelerator (0 for an absent symbol).
C21_CountHandOff ==
    Counted =>
        \A read \in {FreqRead} : \A rows \in {SymbolRows}, syms \in {Present(read)} :
            /\ Len(rows) = Len(CountRows)
            /\ Len(rows) = Len(syms)
            /\ \A k \in 1..Len(rows) :
                  /\ Len(rows[k]) = 8 /\ is_binstr(rows[k])
                  /\ binstr_to_int(rows[k]) = syms[k]
            /\ RcOf("stage_codebook_gen") = 0 => freq_table = read

\* a table rebuilt from at least two rows with different counts, one of them
\* of two digits
C21_Witness ==
    /\ Counted /\ RcOf("stage_codebook_gen") = 0
    /\ \E s, t \in 0..(MAX_SYMBOLS - 1) :
          /\ s < t /\ freq_table[s] > 0 /\ freq_table[t] > 0
          /\ freq_table[s] # freq_table[t]
          /\ freq_table[s] >= 10 \/ freq_table[t] >= 10

---------------------------------------------------------------------------
(* The encoded output against the parsed payload, under SpecRun *)

\* the positions of the line feeds of a text, ascending
LineFeeds(buf) ==
    LET S == {i \in 1..Len(buf) : buf[i] = LF}
    IN [k \in 1..Cardinality(S) |->
           CHOOSE x \in S : Cardinality({y \in S : y < x}) = k - 1]

\* the lines of a text, an empty line included: what stands before each line
\* feed, without the carriage return in front of it
TextLines(buf) ==
    Let(LineFeeds(buf), LAMBDA lf :
        [k \in 1..Len(lf) |->
            LET from == IF k = 1 THEN 1 ELSE lf[k - 1] + 1
                to_ == IF lf[k] > from /\ buf[lf[k] - 1] = CR THEN lf[k] - 2 ELSE lf[k] - 1
            IN SubSeq(buf, from, to_)])

\* the encoded output has one line per record of the parsed payload, in
\* order: the low `len` bits of the codeword loaded for the record's symbol
OneLinePerRecord ==
    \A recs \in {C_ReadLines(fs[PARSED_FILE], LINE_LEN_C)},
       lines \in {TextLines(fs[OUTPUT_FILE])} :
        /\ Len(lines) = Len(recs)
        /\ \A k \in 1..Len(lines) :
              \A e \in {IpEntry(ip.loads, binstr_to_int(recs[k]))} :
                  /\ Len(lines[k]) = e.len
                  /\ is_binstr(lines[k]) \/ lines[k] = <<>>
                  /\ binstr_to_int(lines[k]) = e.code % Pow2(e.len)

Encoded == RcOf("stage_huffman_encode") = 0 /\ Exists(fs, PARSED_FILE)
              /\ Exists(fs, OUTPUT_FILE)

\* C22: when the encode stage succeeds the encoded output has exactly one line
\* per record of the parsed payload, in the same order, and each line is
\* exactly the reported number of bits: the low `length` bits of the returned
\* codeword, most significant first, with no padding.
C22_OneLinePerRecord == Encoded => OneLinePerRecord

\* the same, for runs whose encoder answered every request in time
C22_OneLinePerRecordInTime == (Encoded /\ ~env.enc_timeout) => OneLinePerRecord

---------------------------------------------------------------------------
(* The classifier of the split stage, line by line, under SpecSplit *)

IsNotSpace(c) == ~isspace(c)

\* a line of exactly one whitespace-delimited token that is a binary string
SingleBinaryToken(line) ==
    token_count(line) = 1 /\ is_binstr(SelectSeq(line, IsNotSpace))

\* the first index from `from` on whose line satisfies P, Len + 1 if none
FirstLine(lines, from, P(_)) ==
    LET S == {k \in from..Len(lines) : P(lines[k])}
    IN IF S = {} THEN Len(lines) + 1 ELSE CHOOSE k \in S : \A j \in S : k <= j

IsSentinel(line) == StartsWith(line, <<"S","y","m","b","o","l">>)
IsEmptyLine(line) == line = <<>>

\* the lines of the decrypted bundle, the line that puts the classifier in
\* state Codebook, and the first line after it of one binary token
BundleLines == TextLines(fs[D_DECRYPTED_FILE])
CodebookFrom(lines) == FirstLine(lines, 1, IsSentinel)
BoundaryAt(lines) == FirstLine(lines, CodebookFrom(lines) + 1, SingleBinaryToken)

\* the classifier reaches the line at k: no empty line ends the read loop first
Seen(lines, k) == FirstLine(lines, 1, IsEmptyLine) > k

\* C23: in state Codebook the classifier switches to Output on the first line
\* whose whitespace-delimited token count is exactly one and whose single token
\* is a valid binary string, and writes that boundary line to the output
\* artifact; every earlier line seen in state Codebook goes to the codebook
\* artifact.
C23_BoundaryLine ==
    (Ran("split_comp_bin") /\ RcOf("split_comp_bin") = 0) =>
        \A lines \in {BundleLines} : \A c \in {CodebookFrom(lines)} :
        \A b \in {BoundaryAt(lines)} :
            (c <= Len(lines) /\ b <= Len(lines) /\ Seen(lines, b)) =>
                /\ StartsWith(fs[D_OUTPUT_FILE], lines[b] \o CRLF)
                /\ fs[D_CODEBOOK_FILE] = SectionText(SubSeq(lines, c, b - 1))

\* the same for boundary lines that are a binary string and nothing else
C23_BoundaryLineBare ==
    (Ran("split_comp_bin") /\ RcOf("split_comp_bin") = 0) =>
        \A lines \in {BundleLines} : \A c \in {CodebookFrom(lines)} :
        \A b \in {BoundaryAt(lines)} :
            (c <= Len(lines) /\ b <= Len(lines) /\ Seen(lines, b)
                  /\ is_binstr(lines[b])) =>
                /\ StartsWith(fs[D_OUTPUT_FILE], lines[b] \o CRLF)
                /\ fs[D_CODEBOOK_FILE] = SectionText(SubSeq(lines, c, b - 1))

\* C24: once the classifier has entered Output, every remaining line of the
\* decrypted bundle up to its end is copied, in order and with unchanged
\* content, to the output artifact.  The classifier enters Output on a seen
\* line after the sentinel that is a bare binary string.
C24_OutputCopiedToEnd ==
    (Ran("split_comp_bin") /\ RcOf("split_comp_bin") = 0) =>
        \A lines \in {BundleLines} : \A c \in {CodebookFrom(lines)} :
        \A b \in {BoundaryAt(lines)} :
            (c <= Len(lines) /\ b <= Len(lines) /\ Seen(lines, b)
                  /\ is_binstr(lines[b])) =>
                fs[D_OUTPUT_FILE] = SectionText(SubSeq(lines, b, Len(lines)))

\* the same for bundles without an empty line after the boundary
C24_OutputCopiedNoEmpty ==
    (Ran("split_comp_bin") /\ RcOf("split_comp_bin") = 0) =>
        \A lines \in {BundleLines} : \A c \in {CodebookFrom(lines)} :
        \A b \in {BoundaryAt(lines)} :
            (c <= Len(lines) /\ b <= Len(lines) /\ Seen(lines, Len(lines))
                  /\ is_binstr(lines[b])) =>
                fs[D_OUTPUT_FILE] = SectionText(SubSeq(lines, b, Len(lines)))

---------------------------------------------------------------------------
(* The record readers of the decompressor on artifacts with records of wrong
   width: each stage is run on the files it reads, drawn from small sets *)

MaxRows == 3        \* rows of a table or occurrence artifact handed to a stage
MaxRecords == 5     \* records of a symbol stream handed to the merge stage

Bin(v, w) == uint_to_binstr(v, w)

\* the files a stage reads, one per field of a record
FieldFiles ==
    [d_regen |-> <<D_CODEBOOK_FILE>>,
     d_load |-> <<D_SYMIN_FILE, D_CODEWIN_FILE, D_CODELEN_FILE>>,
     d_decode |-> <<D_OUTCW_FILE, D_OUTLEN_FILE>>,
     d_merge |-> <<D_PARRGN_FILE>>]

\* well-formed records of each stage
GoodRecords ==
    [d_regen |-> {<<r>> : r \in BundleCodeRows},
     d_load |-> {<<Bin(0, 8), Bin(0, 16), Bin(1, 5)>>, <<Bin(255, 8), Bin(2, 16), Bin(2, 5)>>},
     d_decode |-> {<<Bin(0, 16), Bin(1, 5)>>, <<Bin(2, 16), Bin(2, 5)>>},
     d_merge |-> {<<Bin(1, 8)>>, <<Bin(128, 8)>>}]

\* records with one field of the wrong width: a bit short, a bit long, empty
BadRecords ==
    [d_regen |-> {<<Bin(0, 7) \o <<SP>> \o Bin(0, 1) \o <<SP, "1">> >>, << <<>> >>},
     d_load |-> {<<Bin(1, 7), Bin(1, 16), Bin(1, 5)>>, <<Bin(1, 8), Bin(1, 17), Bin(1, 5)>>,
                 <<Bin(1, 8), Bin(1, 16), <<>> >>},
     d_decode |-> {<<Bin(1, 15), Bin(1, 5)>>, <<Bin(2, 16), Bin(2, 6)>>, << <<>>, Bin(1, 5)>>},
     d_merge |-> {<<Bin(3, 7)>>, <<Bin(3, 9)>>, << <<>> >>}]

\* the same without the records that hold an empty line
BadRecordsNotEmpty ==
    [s \in DOMAIN BadRecords |-> {r \in BadRecords[s] : \A i \in 1..Len(r) : r[i] # <<>>}]

\* the files of a stage holding these records, one line per record and field
RecordFiles(stage, records) ==
    [n \in {FieldFiles[stage][i] : i \in 1..Len(FieldFiles[stage])} |->
        LET i == CHOOSE j \in 1..Len(FieldFiles[stage]) : FieldFiles[stage][j] = n
        IN (IF stage = "d_regen" THEN ReportHeader ELSE <<>>)
             \o Flatten([k \in 1..Len(records) |-> records[k][i] \o CRLF])]

\* the decoder table of the decode stage: the two codewords of GoodRecords
DecoderLoaded ==
    [IpIdle EXCEPT !.d_loads = <<[symbol |-> 0, code |-> 0, len |-> 1],
                                 [symbol |-> 255, code |-> 2, len |-> 2]>>]

InitWidths ==
    /\ \E stage \in DOMAIN FieldFiles :
       \E records \in SeqsUpTo(GoodRecords[stage] \cup BadRecords[stage],
                               IF stage = "d_merge" THEN MaxRecords ELSE MaxRows) :
          /\ env = EnvNone @@ [stage |-> stage, records |-> records]
          /\ fs = RecordFiles(stage, records)
          /\ pc = stage
          /\ ip = IF stage = "d_decode" THEN DecoderLoaded ELSE IpIdle
    /\ rcs = <<>>
    /\ freq_table = ZeroFreqTable
    /\ huff_table = ZeroHuffTable
    /\ node_pool = <<>>
    /\ to = 0
    /\ minheap = EmptyHeap

NextWidths == D_Regen \/ D_Load \/ D_Decode \/ D_MergeWords

SpecWidths == InitWidths /\ [][NextWidths]_vars

StageName ==
    [d_regen |-> "generate_huffman_table_files_from_HMCODES",
     d_load |-> "load_huffman_table_from_files",
     d_decode |-> "decompress_from_files",
     d_merge |-> "merge_symbols_to_words"]

\* what a stage produces from the files f: its status and its output
Outcome(stage, f) ==
    CASE stage = "d_regen" ->
            LET r == generate_huffman_table_files_from_HMCODES(f, {})
            IN <<r.rc, r.fs[D_SYMIN_FILE], r.fs[D_CODEWIN_FILE], r.fs[D_CODELEN_FILE]>>
      [] stage = "d_load" ->
            LET r == load_huffman_table_from_files(f, IpIdle, {}, AllPrompt)
            IN <<r.rc, r.ip.d_loads>>
      [] stage = "d_decode" ->
            LET r == decompress_from_files(f, DecoderLoaded, {})
            IN <<r.rc, r.fs[D_PARRGN_FILE]>>
      [] stage = "d_merge" ->
            LET r == merge_symbols_to_words(f, {})
            IN <<r.rc, r.fs[D_MERGED_FILE]>>

\* what the stage of this run has produced
Produced ==
    CASE env.stage = "d_regen" ->
            <<RcOf(StageName.d_regen), fs[D_SYMIN_FILE], fs[D_CODEWIN_FILE], fs[D_CODELEN_FILE]>>
      [] env.stage = "d_load" -> <<RcOf(StageName.d_load), ip.d_loads>>
      [] env.stage = "d_decode" -> <<RcOf(StageName.d_decode), fs[D_PARRGN_FILE]>>
      [] env.stage = "d_merge" -> <<RcOf(StageName.d_merge), fs[D_MERGED_FILE]>>

IsGoodRecord(r) == r \in GoodRecords[env.stage]

\* the stage succeeded and produced what it produces from the same records
\* without the bad ones
AsIfBadAbsent ==
    /\ Produced[1] = 0
    /\ Produced = Outcome(env.stage,
                          RecordFiles(env.stage, SelectSeq(env.records, IsGoodRecord)))

\* C25: in table regeneration, table loading, decoding and byte merging a
\* record whose fixed field width is wrong is skipped without failing the
\* stage, and all later well-formed records are processed exactly as if the
\* bad record were absent.
C25_BadWidthSkipped == Ran(StageName[env.stage]) => AsIfBadAbsent

\* the same for bad records none of whose lines is empty
C25_BadWidthSkippedNotEmpty ==
    (Ran(StageName[env.stage])
        /\ \A k \in 1..Len(env.records) :
              env.records[k] \in GoodRecords[env.stage] \cup BadRecordsNotEmpty[env.stage])
    => AsIfBadAbsent

---------------------------------------------------------------------------
(* Codewords of more than 16 bits in the bundle handed to the decompressor *)

\* a codebook row as the codebook stage formats it
CodebookRow(symbol, code) ==
    SubSeq(ReportRow(symbol, [ZeroEntry EXCEPT !.code = code, !.code_len = Len(code)]), 1, 34)

Ones(n) == [i \in 1..n |-> "1"]

\* well-formed rows with codewords of 1, 16 and 17 bits
LongCodeRows == {CodebookRow(255, Ones(17))}
WideCodeRows == {CodebookRow(0, <<"0">>), CodebookRow(128, Ones(16))} \cup LongCodeRows

\* output lines: 1 and 16 bits, 17 bits, and 16 and 17 bits around a blank
LongOutputLines == {Ones(17), Ones(9) \o <<SP>> \o Ones(8)}
WideOutputLines == {<<"0">>, Ones(16), Ones(8) \o <<SP>> \o Ones(8)} \cup LongOutputLines

InitLong ==
    /\ \E rows \in SeqsUpTo(WideCodeRows, MaxLines),
          out \in SeqsUpTo(WideOutputLines, MaxLines) :
          fs = (D_DECRYPTED_FILE :>
                   HeaderLines[1] \o CRLF \o ReportHeader
                     \o Flatten([k \in 1..Len(rows) |-> rows[k] \o CRLF])
                     \o Flatten([k \in 1..Len(out) |-> out[k] \o CRLF]))
    /\ env = EnvNone
    /\ pc = "d_split"
    /\ rcs = <<>>
    /\ freq_table = ZeroFreqTable
    /\ huff_table = ZeroHuffTable
    /\ node_pool = <<>>
    /\ ip = IpIdle
    /\ to = 0
    /\ minheap = EmptyHeap

NextLong ==
    \/ D_Split \/ D_Regen \/ D_OutStream \/ D_Load \/ D_Decode
    \/ D_MergeWords \/ D_MergeHeader \/ D_Cleanup \/ D_Return

SpecLong == InitLong /\ [][NextLong]_vars

\* the codebook artifact holds a well-formed row with a codeword of more than
\* 16 bits, the output artifact a line of more than 16 bits
HasLongCodeRow ==
    \E lines \in {TextLines(fs[D_CODEBOOK_FILE])} :
        \E k \in 1..Len(lines) : lines[k] \in LongCodeRows
HasLongOutputLine ==
    \E lines \in {TextLines(fs[D_OUTPUT_FILE])} :
        \E k \in 1..Len(lines) : Len(SelectSeq(lines[k], IsBit)) > 16

\* a regeneration stage has run and the artifact it read is still on the card
\* (the cleanup that follows a successful run removes it)
Regenerated(stage, artifact) == Ran(stage) /\ Exists(fs, artifact)

RegenName == "generate_huffman_table_files_from_HMCODES"
OutStreamName == "generate_out_stream_files_from_OUTPUT"

\* the run stops at the failed stage: nothing runs after it but main's return
AbortedAt(stage) ==
    /\ RcOf(stage) = -1
    /\ rcs[Len(rcs)].stage \in {stage, "D_main"}
    /\ Len(rcs) > 1 => rcs[Len(rcs) - 1].stage \in {stage, "split_comp_bin", RegenName}
    /\ ~Ran("D_cleanup_helper_files")
    /\ Ran("D_main") => RcOf("D_main") = -1
    /\ pc \in {"d_fail", "d_exit"}

\* C26: a codeword of more than 16 bits is fatal: table regeneration from the
\* codebook fails on an otherwise well-formed row whose codeword token is
\* longer than 16 bits, regeneration from the output fails on a line with more
\* than 16 bits after stripping the other characters, and the run aborts.
C26_LongCodewordFatal ==
    /\ (Regenerated(RegenName, D_CODEBOOK_FILE) /\ HasLongCodeRow)
          => AbortedAt(RegenName)
    /\ (Regenerated(OutStreamName, D_OUTPUT_FILE) /\ HasLongOutputLine)
          => AbortedAt(OutStreamName)
    /\ (Regenerated(RegenName, D_CODEBOOK_FILE) /\ ~HasLongCodeRow)
          => RcOf(RegenName) = 0
    /\ (Regenerated(OutStreamName, D_OUTPUT_FILE) /\ ~HasLongOutputLine)
          => RcOf(OutStreamName) = 0

\* the run has returned -1 after a 17-bit codeword in the codebook
C26_Witness ==
    /\ pc = "d_exit" /\ HasLongCodeRow /\ AbortedAt(RegenName)
    /\ Len(TextLines(fs[D_CODEBOOK_FILE])) > 3

\* the run has returned -1 after a line of 17 bits in the output
C26_OutputWitness ==
    pc = "d_exit" /\ HasLongOutputLine /\ AbortedAt(OutStreamName)

---------------------------------------------------------------------------
(* The occurrence stream against the encoded output, under SpecTrip *)

OutStreamed ==
    /\ Ran(OutStreamName) /\ RcOf(OutStreamName) = 0
    /\ Exists(fs, OUTPUT_FILE) /\ Exists(fs, D_OUTCW_FILE) /\ Exists(fs, D_OUTLEN_FILE)

\* the codeword and length artifacts hold one pair per line of occ, in order:
\* the bits left-padded with zeros to 16, and their number in 5 bits
PairsOf(occ) ==
    \A cw \in {TextLines(fs[D_OUTCW_FILE])}, ln \in {TextLines(fs[D_OUTLEN_FILE])} :
        /\ Len(cw) = Len(ln)
        /\ Len(cw) = Len(occ)
        /\ \A k \in 1..Len(occ) :
              /\ cw[k] = [i \in 1..(16 - Len(occ[k])) |-> "0"] \o occ[k]
              /\ Len(ln[k]) = 5
              /\ binstr_to_int(ln[k]) = Len(occ[k])

\* C27: table regeneration from the output produces the occurrence stream:
\* exactly one (16-bit codeword, 5-bit length) pair per codeword occurrence the
\* encode phase wrote, in order, the length being the number of bits of the
\* occurrence and the codeword those bits left-padded with zeros to 16; the
\* two artifacts have equal row counts.
C27_OccurrenceStream ==
    OutStreamed => \A occ \in {TextLines(fs[OUTPUT_FILE])} : PairsOf(occ)

\* the same for payloads none of whose occurrences has length 0
C27_OccurrenceStreamNotEmpty ==
    OutStreamed =>
        \A occ \in {TextLines(fs[OUTPUT_FILE])} :
            (\A k \in 1..Len(occ) : occ[k] # <<>>) => PairsOf(occ)

\* the two artifacts always have equal row counts
C27_EqualRowCounts ==
    (Exists(fs, D_OUTCW_FILE) /\ Exists(fs, D_OUTLEN_FILE)) =>
        Len(TextLines(fs[D_OUTCW_FILE])) = Len(TextLines(fs[D_OUTLEN_FILE]))

---------------------------------------------------------------------------
(* The merge stage on symbol streams of any length, under SpecWidths *)

IsSymbolRecord(r) == Len(r[1]) = 8 /\ is_binstr(r[1])

\* the rows of floor(n/4) calls of mergeBytes4 on the n valid records of the
\* stream, 4 consecutive records per call, in stream order
GroupsOfFour(records) ==
    LET valid == SelectSeq(records, IsSymbolRecord)
    IN Flatten([g \in 1..(Len(valid) \div 4) |->
           valid[4 * g - 3][1] \o valid[4 * g - 2][1] \o valid[4 * g - 1][1]
               \o valid[4 * g][1] \o CRLF])

Merged4 == env.stage = "d_merge" /\ Ran(StageName.d_merge)

\* C28: for a symbol stream with n valid 8-bit records the merge stage makes
\* exactly floor(n/4) calls of mergeBytes4, each on 4 consecutive records in
\* stream order, writes one 32-bit record per call, and gives no output for a
\* trailing group of fewer than 4 records.
C28_MergeGroups ==
    Merged4 =>
        /\ RcOf(StageName.d_merge) = 0
        /\ fs[D_MERGED_FILE] = GroupsOfFour(env.records)

\* the same for streams without an empty line
C28_MergeGroupsNotEmpty ==
    (Merged4 /\ \A k \in 1..Len(env.records) : env.records[k][1] # <<>>) =>
        /\ RcOf(StageName.d_merge) = 0
        /\ fs[D_MERGED_FILE] = GroupsOfFour(env.records)

---------------------------------------------------------------------------
(* The tree build, one loop iteration at a time (compression.c:434-450) *)

\* The frequency tables of the build: the first n symbols present, with equal,
\* rising or falling counts, and the tables of the codec layer
BuildSizes == {0, 1, 2, 3, MAX_SYMBOLS - 1, MAX_SYMBOLS}
BuildShapes == {"equal", "rising", "falling", "full"}
BuildTable(n, shape) ==
    [s \in 0..(MAX_SYMBOLS - 1) |->
        IF s >= n THEN 0
        ELSE IF shape = "equal" THEN 1
        ELSE IF shape = "full" THEN FREQ_MASK - 1
        ELSE IF shape = "rising" THEN s + 1
        ELSE n - s]
BuildTables ==
    {BuildTable(n, shape) : n \in BuildSizes, shape \in BuildShapes}
        \cup {DeepCounts, ExampleCounts}

\* node_pool holds what an earlier build left behind: the arena is a global
StaleNode == [symbol |-> -1, freq |-> 1, left |-> NULL, right |-> NULL]
StalePools == {<<>>, <<StaleNode>>, <<StaleNode, StaleNode, StaleNode>>}

InitBuild ==
    /\ \E counts \in BuildTables :
          /\ env = [EnvNone EXCEPT !.counts = counts]
          /\ freq_table = counts
    /\ fs = <<>>
    /\ node_pool \in StalePools
    /\ pc = "b_start"
    /\ rcs = <<>>
    /\ huff_table = ZeroHuffTable
    /\ ip = IpIdle
    /\ to = 0
    /\ minheap = EmptyHeap

\* MinHeap heap = {.size = 0}; node_index = 0;
B_Start ==
    /\ pc = "b_start"
    /\ minheap' = EmptyHeap
    /\ node_pool' = <<>>
    /\ pc' = "b_leaves"
    /\ UNCHANGED <<fs, rcs, freq_table, huff_table, ip, env, to>>

\* the loop index i after the latest push, and the symbols still to be met
LoopIndex == IF node_pool = <<>> THEN 0 ELSE node_pool[Len(node_pool)].symbol + 1
LeavesAhead == {i \in LoopIndex..(MAX_SYMBOLS - 1) : freq_table[i] > 0}

\* the for loop up to and including its next push: the leaf of the next
\* symbol with freq_table[i] > 0
B_PushLeaf ==
    /\ pc = "b_leaves"
    /\ LeavesAhead # {}
    /\ \E sym \in {CHOOSE i \in LeavesAhead : \A j \in LeavesAhead : i <= j} :
       \E p2 \in {new_node(node_pool, sym, freq_table[sym], NULL, NULL)} :
          /\ node_pool' = p2
          /\ minheap' = heap_push(p2, minheap, Len(p2))
    /\ UNCHANGED <<fs, pc, rcs, freq_table, huff_table, ip, env, to>>

\* the for loop runs out of symbols
B_LeavesDone ==
    /\ pc = "b_leaves"
    /\ LeavesAhead = {}
    /\ pc' = "b_merge"
    /\ UNCHANGED <<fs, rcs, freq_table, huff_table, node_pool, ip, env, to, minheap>>

\* int freq: the range of a 32-bit signed int
INT_MAX == 2147483647
INT_MIN == -INT_MAX - 1
\* left->freq + right->freq leaves the range of int
SumOverflows(a, b) == (b > 0 /\ a > INT_MAX - b) \/ (b < 0 /\ a < INT_MIN - b)
\* the sum as a two's complement machine leaves it: exact, or off by 2^32
WrappedSum(a, b) ==
    IF b > 0 /\ a > INT_MAX - b THEN (a + INT_MIN) + (b + INT_MIN)
    ELSE IF b < 0 /\ a < INT_MIN - b THEN (a - INT_MIN) + (b - INT_MIN)
    ELSE a + b

\* one iteration of while (heap.size > 1); a sum that overflows is undefined
\* in C: this build wraps it, the build of B_SumTrap traps on it
B_MergeStep ==
    /\ pc = "b_merge"
    /\ minheap.size > 1
    /\ \E a \in {heap_pop(node_pool, minheap)} :
       \E b \in {heap_pop(node_pool, a.heap)} :
       \E p2 \in {new_node(node_pool, -1,
                           WrappedSum(node_pool[a.res].freq, node_pool[b.res].freq),
                           a.res, b.res)} :
          /\ node_pool' = p2
          /\ minheap' = heap_push(p2, b.heap, Len(p2))
    /\ UNCHANGED <<fs, pc, rcs, freq_table, huff_table, ip, env, to>>

\* the same iteration in a build that traps on signed overflow: the program
\* stops at the sum, with both nodes popped
B_SumTrap ==
    /\ pc = "b_merge"
    /\ minheap.size > 1
    /\ \E a \in {heap_pop(node_pool, minheap)} :
       \E b \in {heap_pop(node_pool, a.heap)} :
          /\ SumOverflows(node_pool[a.res].freq, node_pool[b.res].freq)
          /\ minheap' = b.heap
    /\ pc' = "b_trap"
    /\ UNCHANGED <<fs, rcs, freq_table, huff_table, node_pool, ip, env, to>>

\* if (heap.size == 1) assign_codes(heap.nodes[0], code, 0);
B_Assign ==
    /\ pc = "b_merge"
    /\ minheap.size <= 1
    /\ huff_table' = IF minheap.size = 1
                     THEN assign_codes(node_pool, huff_table, minheap.nodes[0], <<>>)
                     ELSE huff_table
    /\ pc' = "b_done"
    /\ UNCHANGED <<fs, rcs, freq_table, node_pool, ip, env, to, minheap>>

NextBuild == B_Start \/ B_PushLeaf \/ B_LeavesDone \/ B_MergeStep \/ B_SumTrap \/ B_Assign

SpecBuild == InitBuild /\ [][NextBuild]_vars

\* the build has started: node_index and heap.size have been set
Building == pc \in {"b_leaves", "b_merge", "b_trap", "b_done"}

\* a pointer into the arena's allocated prefix
InArena(p) == p \in 1..Len(node_pool)

\* C29: in every state of a build, for any frequency table, the nodes allocated
\* from the arena number at most 2 * 256 - 1 and the heap holds at most 256
\* entries, every entry of the heap and every child pointer points into the
\* allocated part of the arena, and a finished build over n >= 1 present
\* symbols has allocated exactly 2n - 1 nodes
C29_ResourceBounds ==
    Building =>
        /\ Len(node_pool) <= 2 * MAX_SYMBOLS - 1
        /\ minheap.size \in 0..MAX_SYMBOLS
        /\ minheap.size <= Cardinality(TableSymbols)
        /\ \A i \in 0..(minheap.size - 1) : InArena(minheap.nodes[i])
        /\ \A k \in 1..Len(node_pool) :
              /\ node_pool[k].left = NULL \/ InArena(node_pool[k].left)
              /\ node_pool[k].right = NULL \/ InArena(node_pool[k].right)
        /\ (pc = "b_done" /\ TableSymbols # {}) =>
              Len(node_pool) = 2 * Cardinality(TableSymbols) - 1

\* a finished build over all 256 symbols: 511 nodes
C29_Witness ==
    /\ pc = "b_done"
    /\ Cardinality(TableSymbols) = MAX_SYMBOLS
    /\ Len(node_pool) = 2 * MAX_SYMBOLS - 1
    /\ \A s \in 0..(MAX_SYMBOLS - 1) : huff_table[s].code_len > 0

\* the heap is full: all 256 leaves are on it
C29_HeapFull ==
    /\ pc = "b_merge"
    /\ minheap.size = MAX_SYMBOLS

---------------------------------------------------------------------------
(* Two runs of the codebook stage in one process (compression.c:381-384, 452-512) *)

\* env.later: the counts the count stage leaves before the second run
InitRebuild ==
    /\ \E first \in CodecCounts, later \in SmallCounts :
          /\ env = [EnvNone EXCEPT !.counts = first] @@ [later |-> later]
          /\ LET w == write_symbol_count_files(first)
             IN fs = (SYMBOL_FILE :> w.sym) @@ (COUNT_FILE :> w.cnt)
    /\ pc = "r_codebook"
    /\ rcs = <<>>
    /\ freq_table = ZeroFreqTable
    /\ huff_table = ZeroHuffTable
    /\ node_pool = <<>>
    /\ ip = IpIdle
    /\ to = 0
    /\ minheap = EmptyHeap

\* stage_codebook_gen() on the globals as they stand
R_CodebookGen ==
    /\ pc = "r_codebook"
    /\ \E r \in {stage_codebook_gen(fs, freq_table, huff_table, {})} :
          /\ fs' = r.fs
          /\ freq_table' = r.freq_table
          /\ huff_table' = r.huff_table
          /\ node_pool' = r.node_pool
          /\ rcs' = Append(rcs, [stage |-> "stage_codebook_gen", rc |-> r.rc])
    /\ pc' = IF rcs = <<>> THEN "r_count" ELSE "r_done"
    /\ UNCHANGED <<ip, env, to, minheap>>

\* the symbol and count artifacts are written again, for another payload
R_Recount ==
    /\ pc = "r_count"
    /\ LET w == write_symbol_count_files(env.later)
       IN fs' = WriteFiles(fs, (SYMBOL_FILE :> w.sym) @@ (COUNT_FILE :> w.cnt))
    /\ env' = [env EXCEPT !.counts = env.later]
    /\ pc' = "r_codebook"
    /\ UNCHANGED <<rcs, freq_table, huff_table, node_pool, ip, to, minheap>>

NextRebuild == R_CodebookGen \/ R_Recount

SpecRebuild == InitRebuild /\ [][NextRebuild]_vars

\* a run of the stage has just returned and its artifacts are still in place
JustBuilt == pc \in {"r_count", "r_done"} /\ LastRc = 0
\* what the stage makes of the same artifacts with every table zeroed
FreshBuild == stage_codebook_gen(fs, ZeroFreqTable, ZeroHuffTable, {})
\* the symbols with a row in the codebook's symbol table
RowSymbols ==
    Let(TextLines(fs[SYMIN_FILE]), LAMBDA rows :
        {binstr_to_int(rows[k]) : k \in 1..Len(rows)})
CountedSymbols == {s \in 0..(MAX_SYMBOLS - 1) : env.counts[s] > 0}

C30_FirstRunFresh ==
    (JustBuilt /\ Len(rcs) = 1) =>
        Let(FreshBuild, LAMBDA fresh :
            /\ freq_table = fresh.freq_table
            /\ huff_table = fresh.huff_table
            /\ fs[CODEBOOK_FILE] = fresh.fs[CODEBOOK_FILE]
            /\ TableSymbols = CountedSymbols
            /\ RowSymbols = CountedSymbols)

\* the arena is reset by every run: it holds the nodes of the latest build only
C30_ArenaResetEachRun ==
    (JustBuilt /\ TableSymbols # {}) => Len(node_pool) = 2 * Cardinality(TableSymbols) - 1

\* in every run the tables keep each entry the artifacts of that run give them
C30_TablesCoverRun ==
    JustBuilt =>
        /\ CountedSymbols \subseteq TableSymbols
        /\ \A s \in CountedSymbols :
              freq_table[s] = env.counts[s] /\ huff_table[s].freq = env.counts[s]

---------------------------------------------------------------------------
(* The frequencies of the tree (compression.c:443-448) *)

RECURSIVE CountOver(_, _, _)
\* ft[lo] + ... + ft[hi], or -1 when that is more than INT_MAX
CountOver(ft, lo, hi) ==
    IF lo = hi THEN ft[lo]
    ELSE Let(<<CountOver(ft, lo, (lo + hi) \div 2), CountOver(ft, (lo + hi) \div 2 + 1, hi)>>,
             LAMBDA h : IF h[1] < 0 \/ h[2] < 0 \/ SumOverflows(h[1], h[2]) THEN -1
                        ELSE h[1] + h[2])
TotalCount == CountOver(freq_table, 0, MAX_SYMBOLS - 1)

IsInternal(k) == node_pool[k].left # NULL \/ node_pool[k].right # NULL

\* node k carries the exact sum of its two children, the first-extracted
\* (the smaller) on the left
ExactSum(k) ==
    /\ node_pool[k].left # NULL /\ node_pool[k].right # NULL
    /\ node_pool[k].left # node_pool[k].right
    /\ node_pool[node_pool[k].left].freq <= node_pool[node_pool[k].right].freq
    /\ ~SumOverflows(node_pool[node_pool[k].left].freq, node_pool[node_pool[k].right].freq)
    /\ node_pool[k].freq =
           node_pool[node_pool[k].left].freq + node_pool[node_pool[k].right].freq

TreeSums ==
    /\ pc # "b_trap"
    /\ \A k \in 1..Len(node_pool) : IsInternal(k) => ExactSum(k)
    /\ (pc = "b_done" /\ minheap.size = 1) =>
          node_pool[minheap.nodes[0]].freq = TotalCount

\* every count of the table is in the accelerator's 24-bit range
In24Bits == \A s \in 0..(MAX_SYMBOLS - 1) : freq_table[s] \in 0..(FREQ_MASK - 1)

\* C31: in every state of a build over a frequency table whose counts lie in
\* the 24-bit range, every internal node carries the exact sum of its two
\* children, first-extracted on the left, no sum leaves the range of a 32-bit
\* signed int, and the root of a finished build carries the total count
C31_ExactSums == (Building /\ In24Bits) => TreeSums

\* the same for the tables whose total count fits a 32-bit signed int
C31_ExactSumsWhenTotalFits ==
    (Building /\ In24Bits /\ TotalCount >= 0) => TreeSums
\* a finished build with internal nodes whose total fits
C31_TotalFitsReached ==
    /\ pc = "b_done" /\ Cardinality(TableSymbols) = MAX_SYMBOLS
    /\ TotalCount > MAX_SYMBOLS

---------------------------------------------------------------------------
(* The build over a table without symbols (compression.c:434-450, 507-548) *)

\* the codebook stage has returned 0 on a frequency table without symbols
BuiltFromNothing == RcOf("stage_codebook_gen") = 0 /\ TableSymbols = {}

\* C32: when no symbol has a non-zero frequency the build allocates no node
\* and assigns no code, the codebook report is its two header lines and the
\* symbol, codeword and length tables have no row
C32_EmptyCodeTable ==
    BuiltFromNothing =>
        /\ node_pool = <<>>
        /\ huff_table = ZeroHuffTable
        /\ Let(TextLines(fs[CODEBOOK_FILE]), LAMBDA lines :
               /\ Len(lines) = 2
               /\ lines[1] = ReportTitle
               /\ lines[2] = ReportRule)
        /\ fs[SYMIN_FILE] = <<>>
        /\ fs[CODEWIN_FILE] = <<>>
        /\ fs[CODELEN_FILE] = <<>>

\* the stage has run on empty symbol and count artifacts
C32_Witness ==
    /\ BuiltFromNothing
    /\ pc = "encode"
    /\ fs[SYMBOL_FILE] = <<>> /\ fs[COUNT_FILE] = <<>>
    /\ Exists(fs, CODEBOOK_FILE)

---------------------------------------------------------------------------
(* The request strobes after a handshake *)

\* a stage that makes handshakes with the Huffman IP has returned
HandshakeStages == {"stage_huffman_encode", "load_huffman_table_from_files"}
HandshakesReturned == \E st \in HandshakeStages : Ran(st)

\* C33: after the handshakes of a stage have returned, in time or timed out,
\* the request strobes they raised (LOAD_VALID of the table loads, VALID_IN of
\* the encode requests) have been written back to 0: no stage ends with a
\* request strobe still asserted
C33_StrobeWrittenBack ==
    HandshakesReturned => (ip.LOAD_VALID = 0 /\ ip.VALID_IN = 0)

\* the table-load strobe is written back, in time or timed out, in both programs
C33_LoadStrobeWrittenBack ==
    HandshakesReturned => ip.LOAD_VALID = 0
\* a table load has timed out in the compressor, and one in the decompressor
C33_LoadTimeoutReached ==
    RcOf("stage_huffman_encode") = -1 /\ Exists(fs, CODELEN_FILE) /\ env.bad = {}
C33_DecoderLoadTimeoutReached ==
    Ran("load_huffman_table_from_files") /\ RcOf("load_huffman_table_from_files") = -1
        /\ env.bad = {}
\* the encode strobe is written back when no encode request timed out
C33_EncodeStrobeWrittenBackInTime ==
    (HandshakesReturned /\ ~env.enc_timeout) => ip.VALID_IN = 0

\* the same at the level of single register accesses (SpecPoll): the
\* table-load handshake has returned, in time or not
LoadReturned == pc \in {"enc_strobe", "enc_poll", "enc_check", "enc_drop", "enc_write", "returned"}
\* the encode handshake has returned, in time or not
EncodeReturned ==
    \/ pc \in {"enc_drop", "enc_write"}
    \/ pc = "returned" /\ Ran("loadCodeEntry")
\* LOAD_VALID is written back before the test of the timeout
C33_LoadStrobeAtRegisters == LoadReturned => ip.LOAD_VALID = 0
\* VALID_IN is written back after a wait_valid_out that returned 0
C33_EncodeStrobeAtRegisters ==
    (EncodeReturned /\ ~(pc = "returned" /\ to <= 0)) => ip.VALID_IN = 0

---------------------------------------------------------------------------
(* What the poll loops report as a timeout, checked under SpecCodec *)

\* a table load, or an encode request, has been reported as timed out
LoadTimeoutReported == RcOf("stage_huffman_encode") = -1
DecoderLoadTimeoutReported == RcOf("load_huffman_table_from_files") = -1
EncodeTimeoutReported == Ran("stage_huffman_encode") /\ env.enc_timeout

\* C34: loadCodeEntry and encodeSymbol report a timeout only if the flag read
\* deasserted on every poll the loop made: a flag that reads asserted on some
\* poll, the last one included, makes the call a success
C34_TimeoutOnlyIfNeverAsserted ==
    /\ LoadTimeoutReported => NeverDone(env.load)
    /\ DecoderLoadTimeoutReported => NeverDone(env.d_load)
    /\ EncodeTimeoutReported => NeverDone(env.enc)

\* a flag that reads asserted on a poll before the last one makes the call a
\* success (the loops make budget + 1 polls)
C34_EarlierPollSucceeds ==
    /\ (Ran("stage_huffman_encode") /\ env.load.at \in 1..LOAD_TIMEOUT)
          => ~LoadTimeoutReported
    /\ (Ran("load_huffman_table_from_files") /\ env.d_load.at \in 1..LOAD_TIMEOUT)
          => ~DecoderLoadTimeoutReported
    /\ (Ran("stage_huffman_encode") /\ env.enc.at \in 1..VALID_TIMEOUT)
          => ~EncodeTimeoutReported
\* a request answered on the last poll that is not the last one of the budget
C34_LatePollReached ==
    /\ RcOf("stage_huffman_encode") = 0
    /\ env.load.row = 1 /\ env.load.at = LOAD_TIMEOUT /\ Len(ip.loads) >= 1

---------------------------------------------------------------------------
(* The split stage as a partition of the bundle, checked under SpecSplit *)

SplitDone == Ran("split_comp_bin") /\ RcOf("split_comp_bin") = 0
\* the lines of the three artifacts of the split stage, one after the other
SplitArtifactLines ==
    TextLines(fs[D_HEADER_FILE]) \o TextLines(fs[D_CODEBOOK_FILE])
        \o TextLines(fs[D_OUTPUT_FILE])
\* the classifier never goes back: the header artifact holds no sentinel line
\* and only the first line of the codebook artifact is one
ForwardOnly ==
    /\ \A k \in 1..Len(TextLines(fs[D_HEADER_FILE])) :
          ~IsSentinel(TextLines(fs[D_HEADER_FILE])[k])
    /\ TextLines(fs[D_CODEBOOK_FILE]) # <<>> => IsSentinel(TextLines(fs[D_CODEBOOK_FILE])[1])
    /\ (TextLines(fs[D_CODEBOOK_FILE]) = <<>>) => (TextLines(fs[D_OUTPUT_FILE]) = <<>>)

\* C35: the split stage partitions the bundle: the classifier only moves
\* forward (Header, Codebook, Output), and every line of the decrypted
\* bundle, an empty line included, is written to exactly one of the three
\* artifacts, in order: the lines of the header, codebook and output
\* artifacts, one after the other, are the lines of the bundle
C35_SplitPartition ==
    SplitDone => (ForwardOnly /\ SplitArtifactLines = BundleLines)

\* the same for bundles without an empty line
C35_SplitPartitionNoEmpty ==
    (SplitDone /\ Seen(BundleLines, Len(BundleLines))) =>
        (ForwardOnly /\ SplitArtifactLines = BundleLines)
\* what is written is always a prefix of the bundle, cut at its first empty line
C35_SplitPrefix ==
    SplitDone =>
        /\ ForwardOnly
        /\ SplitArtifactLines =
               SubSeq(BundleLines, 1, FirstLine(BundleLines, 1, IsEmptyLine) - 1)
\* a bundle of a header, a codebook and an output section has been split
C35_ThreeSectionsReached ==
    /\ SplitDone /\ Seen(BundleLines, Len(BundleLines))
    /\ TextLines(fs[D_HEADER_FILE]) # <<>>
    /\ Len(TextLines(fs[D_CODEBOOK_FILE])) > 1
    /\ Len(TextLines(fs[D_OUTPUT_FILE])) > 1

---------------------------------------------------------------------------
(* Compress runs on inputs without payload (compression.c:207-216, 294-300) *)

\* inputs without a sentinel line, and inputs with nothing but other
\* characters after it
BareBodies ==
    {<<>>,
     <<<<"D","e","s","i","g","n">> >>,
     <<<<"D","e","s","i","g","n">>, <<"0","1","1","0">> >>,
     <<<<SP>> \o BitsSentinel \o <<SP,"6","4">>, <<"1","0","1">> >>,
     HeaderLines,
     HeaderLines \o << <<>> >>,
     HeaderLines \o << <<"x","y","z">>, <<SP>> >>}
BareInputs ==
    {Flatten([k \in 1..Len(b) |-> b[k] \o eol]) : b \in BareBodies, eol \in {CRLF, <<LF>>}}

InitBare == \E input \in BareInputs \cup TripInputs : InitWith(input, EnvNone)

NextBare ==
    \/ C_BitParser \/ C_FreqCounter \/ C_CodebookGen \/ C_HuffmanEncode
    \/ C_CreateCompBin \/ C_EncryptCompBin \/ C_Cleanup \/ C_Return

SpecBare == InitBare /\ [][NextBare]_vars

\* the input gives no payload bit: no sentinel line, or no '0'/'1' after it
NoPayload == BodyBits(fs[INPUT_FILE]) = <<>>
\* the artifacts of the stages after the count stage
LaterArtifacts ==
    {CODEBOOK_FILE, SYMIN_FILE, CODEWIN_FILE, CODELEN_FILE, OUTPUT_FILE, COMP_FILE, ENCR_FILE}
LaterStages ==
    {"stage_codebook_gen", "stage_huffman_encode", "stage_create_comp_bin",
     "stage_encrypt_comp_bin", "C_cleanup_helper_files"}

\* C36: when the input gives an empty parsed payload (no payload bit after
\* the sentinel line, or no sentinel line) the parse stage succeeds with an
\* empty parsed artifact, the count stage returns failure, and the run ends
\* without running a later stage and without a codebook, table, encoded
\* output, bundle or cipher artifact
C36_EmptyPayloadAborts ==
    (NoPayload /\ pc # "c_parse") =>
        /\ RcOf("stage_bit_parser") = 0
        /\ fs[PARSED_FILE] = <<>>
        /\ pc # "c_count" =>
              /\ RcOf("stage_freq_counter") = -1
              /\ pc \in {"c_done", "c_exit"}
              /\ \A st \in LaterStages : ~Ran(st)
              /\ LaterArtifacts \cap DOMAIN fs = {}

\* a run on an input without a sentinel line has ended
C36_Witness ==
    /\ pc = "c_exit"
    /\ SentinelAt(fs[INPUT_FILE]) = 0
    /\ Len(fs[INPUT_FILE]) > 0
    /\ RcOf("stage_freq_counter") = -1
\* a run on an input with a sentinel line and no bit after it has ended
C36_SentinelWitness ==
    /\ pc = "c_exit"
    /\ SentinelAt(fs[INPUT_FILE]) > 0
    /\ BodyAt(fs[INPUT_FILE]) <= Len(fs[INPUT_FILE])
    /\ RcOf("stage_freq_counter") = -1

=============================================================================
